---- MODULE Spec2Model ----
\* A model of the bucket-archiver pipeline:
\*   ReadMetadata -> Downloader -> Scanner -> Archiver -> Uploader
\* Each goroutine is a process with a program counter; each channel is a
\* bounded FIFO with a closed flag.  Keys are sequences of characters so that
\* the text conversions of the code (strings.TrimSpace) act on them.
EXTENDS Integers, Sequences, FiniteSets, Bags, TLC

\* ---------------------------------------------------------------- bounds

\* Largest number of entry lines of metadata.jsonl (the summary line follows).
MaxLines == 3
\* Largest START of SUBSET=START:STRIDE[:END].
MaxStart == 2
\* Largest STRIDE of SUBSET.
MaxStride == 3
\* Capacity of the toDownload channel (CHAN_TODO_DOWNLOAD).
CapToDownload == 1

\* ---------------------------------------------------------------- keys

\* The object keys of the source bucket.
KeyA == <<"a">>
KeyB == <<"b">>
KeyASp == <<"a", " ">>
KeyPool == {KeyA, KeyB, KeyASp}

\* unicode.IsSpace on the characters of the model's alphabet.
IsSpace(c) == c \in {" ", "\t", "\r", "\n"}

RECURSIVE TrimLeft(_)
TrimLeft(s) ==
    IF s = <<>> THEN s
    ELSE IF IsSpace(Head(s)) THEN TrimLeft(Tail(s)) ELSE s

RECURSIVE TrimRight(_)
TrimRight(s) ==
    IF s = <<>> THEN s
    ELSE IF IsSpace(s[Len(s)]) THEN TrimRight(SubSeq(s, 1, Len(s) - 1)) ELSE s

\* strings.TrimSpace
TrimSpace(s) == TrimRight(TrimLeft(s))

\* ---------------------------------------------------------------- helpers

RECURSIVE SumSizes(_)
SumSizes(s) == IF s = <<>> THEN 0 ELSE Head(s).Size + SumSizes(Tail(s))

Range(s) == { s[i] : i \in 1..Len(s) }

\* No call of a pure function is under way.
NoCall == [pc |-> "none"]

\* A Go channel: its buffered items and whether it was closed.
NewChan == [q |-> <<>>, closed |-> FALSE]

\* ---------------------------------------------------------------- state

VARIABLES
    metadataFile,   \* metadata.jsonl: the entry lines then the summary line
    uploadLog,      \* upload.log: its lines
    subSetFiles,    \* SUBSET: <<>> when unset, else its integer fields
    skipFiles,      \* the resume filter built from upload.log
    TotalFiles,     \* advertised number of files
    TotalBytes,     \* advertised number of bytes
    rd,             \* ReadMetadata: pc and locals
    toDownload,     \* channel Reader -> Downloader
    emitted,        \* history: the DownloadTasks the Reader sent, in order
    cancelled,      \* the cancellation context is done
    crashed,        \* "" while the process runs, else "panic" or "fatal"
    s3Ready,        \* the S3 client is initialised
    scanReady,      \* the ClamAV engine is initialised
    errCh,          \* history: the bag of ErrorEvents posted on the error bus
    errPending,     \* the ErrorEvents buffered in the error bus, not yet consumed
    dl,             \* Downloader loop: pc and the task it holds
    dworkers,       \* the download goroutines in flight
    downloaded,     \* channel Downloader -> Scanner
    downloadedHist, \* history: the bag of DownloadedFiles sent on it
    bufsOut,        \* pooled buffers taken and not put back, by object
    tempFiles,      \* temp spill files on disk
    DownloadedFiles,
    DownloadedBytes,
    sc,             \* Scanner loop
    sworkers,       \* the scan goroutines in flight
    scanLog,        \* history: what the engine was given and reported
    scanned,        \* channel Scanner -> Archiver
    scannedHist,    \* history: the bag of ScannedFiles sent on it
    ScannedFiles,
    ar,             \* Archiver loop: pc, tgzFile, contents, pending task
    sizeCapLimit,   \* SIZECAP
    mn,             \* main: its index phase (pc), whether metadata.jsonl
                    \* was found at the start and is on disk, the bucket,
                    \* and the listings of this run
    dr,             \* the DownloadReader.Read calls in flight
    calc,           \* a call of a pure function: its input, its stage, its result
    archiveCount,
    archiveOpen,    \* archiveFile != nil
    archiveBytesWritten,
    segFiles,       \* the segment files: index -> entries and state
    archiveReady,   \* channel Archiver -> Uploader
    archiveHist,    \* history: the ArchiveFiles the Archiver sent, in order
    up,             \* Uploader loop
    uploaderDone,   \* the Uploader's done channel is closed
    dstObjects,     \* segments present in the destination bucket
    logBase,        \* history: the length of upload.log when the run started
    UploadedFiles,
    UploadedBytes,
    UploadedArchivedFiles

readerVars == <<metadataFile, subSetFiles, skipFiles, TotalFiles, TotalBytes,
                rd, emitted>>
envVars == <<cancelled, crashed, s3Ready, scanReady>>
downVars == <<dl, dworkers, downloadedHist, DownloadedFiles, DownloadedBytes>>
memVars == <<bufsOut, tempFiles>>
scanVars == <<sc, sworkers, scanLog, scannedHist, ScannedFiles>>
\* What no stage of the pipeline writes: the configuration, the counter no
\* code updates, main's index phase and the DownloadReader calls.
mainVars == <<sizeCapLimit, UploadedArchivedFiles, mn, dr, calc>>
errVars == <<errCh, errPending>>
archVars == <<ar, mainVars, archiveCount, archiveOpen, archiveBytesWritten,
              segFiles, archiveHist>>
upVars == <<up, uploaderDone, dstObjects, logBase, UploadedFiles, UploadedBytes,
           uploadLog>>

vars == <<readerVars, envVars, downVars, memVars, scanVars, archVars, upVars,
          errVars, toDownload, downloaded, scanned, archiveReady>>

\* The process is alive: no panic and no log.Fatal has ended it.
Running == crashed = ""

\* ---------------------------------------------------------------- metadata

\* One entry line {"key":k,"size":n} as json.Unmarshal reads it into MetaEntry.
MetaEntry(k, n) == [Key |-> k, Size |-> n]

\* A summary line that carries a key: the variant the run over an empty
\* index is checked against.
SummaryLineWithKey(entries) ==
    [Key |-> <<"s">>, Size |-> 0,
     total_objects |-> Len(entries), total_size |-> SumSizes(entries)]

\* The summary line {"total_objects":..,"total_size":..}: unmarshalled into a
\* MetaEntry it leaves Key empty and Size zero.
SummaryLine(entries) ==
    [Key |-> <<>>, Size |-> 0,
     total_objects |-> Len(entries), total_size |-> SumSizes(entries)]

AsEntry(line) == [Key |-> line.Key, Size |-> line.Size]

\* The size the model gives an object of the Reader's inputs.
ReaderSize(k) == Len(k)

\* Sequences of distinct keys, at most n long.
RECURSIVE KeySeqs(_, _)
KeySeqs(pool, n) ==
    IF n = 0 THEN { <<>> }
    ELSE { <<>> } \cup
         UNION { { <<k>> \o t : t \in KeySeqs(pool \ {k}, n - 1) } : k \in pool }

\* The metadata file the indexer writes for the listed entries.
IndexFile(entries) == entries \o << SummaryLine(entries) >>

\* ---------------------------------------------------------------- Reader

\* fmt.Sscanf(subSetFiles, "%d:%d:%d") then "%d:%d": the fields are assigned
\* as far as the text goes; end is -1 only when exactly two fields parse.
ParseSubset(s) ==
    [start  |-> IF Len(s) >= 1 THEN s[1] ELSE 0,
     stride |-> IF Len(s) >= 2 THEN s[2] ELSE 0,
     end    |-> IF Len(s) >= 3 THEN s[3] ELSE IF Len(s) = 2 THEN -1 ELSE 0]

\* What one Read of a bufio.Scanner takes from the file handle at offset off
\* (in lines).  The scanner asks for its whole 4096-byte buffer, so for a
\* metadata file shorter than that (every file of this model) the first Read
\* takes everything up to the end of the file.
ScannerRead(file, off) == SubSeq(file, off + 1, Len(file))

\* The head of a loop iteration of ReadMetadata: count the line, apply start,
\* end and stride.  verdict is what the iteration does next.
LoopHead(r) ==
    LET ln == r.lineNumber + 1 IN
    IF r.start > 0
    THEN [r EXCEPT !.lineNumber = ln, !.start = r.start - 1, !.verdict = "continue"]
    ELSE IF r.end # -1 /\ ln > r.end
    THEN [r EXCEPT !.lineNumber = ln, !.verdict = "break"]
    ELSE IF r.stride > 1
    THEN LET st == (r.strider + 1) % r.stride IN
         [r EXCEPT !.lineNumber = ln, !.strider = st,
                   !.verdict = IF st # 1 THEN "continue" ELSE "take"]
    ELSE [r EXCEPT !.lineNumber = ln, !.verdict = "take"]

\* scanner.Scan(): refill the buffer from the file handle when it is empty.
ScanFill(r) ==
    IF r.buf # <<>> THEN r
    ELSE [r EXCEPT !.buf = ScannerRead(metadataFile, r.off),
                   !.off = Len(metadataFile)]

\* A new bufio.Scanner on the same file handle: empty buffer, counters reset.
NewScanner(r) == [r EXCEPT !.buf = <<>>, !.lineNumber = 0, !.strider = 0]

OtherThanReader == <<envVars, downVars, memVars, scanVars, archVars, upVars,
                     errVars, downloaded, scanned, archiveReady>>

\* Lines 201-230: build skipFiles from upload.log, parse SUBSET.
ReaderStart ==
    /\ Running
    /\ rd.pc = "start"
    /\ skipFiles' = { TrimSpace(uploadLog[i]) : i \in 1..Len(uploadLog) }
    /\ IF subSetFiles = <<>>
       THEN /\ rd' = [rd EXCEPT !.pc = "emit", !.start = 0, !.stride = 1, !.end = -1]
            /\ UNCHANGED <<TotalFiles, TotalBytes>>
       ELSE LET p == ParseSubset(subSetFiles) IN
            /\ rd' = [rd EXCEPT !.pc = "count", !.start = p.start,
                                !.stride = p.stride, !.end = p.end]
            /\ TotalFiles' = 0
            /\ TotalBytes' = 0
    /\ UNCHANGED <<metadataFile, subSetFiles, toDownload, emitted, OtherThanReader>>

\* Lines 236-271: one iteration of the first pass (size accounting).
ReaderCount ==
    /\ Running
    /\ rd.pc = "count"
    /\ LET f == ScanFill(rd) IN
       IF f.buf = <<>>
       THEN \* Scan() returns false: the first pass is over
            /\ rd' = [NewScanner(f) EXCEPT !.pc = "emit"]
            /\ UNCHANGED <<TotalFiles, TotalBytes>>
       ELSE LET line == Head(f.buf)
                h == LoopHead([f EXCEPT !.buf = Tail(f.buf)])
            IN
            IF h.verdict = "continue"
            THEN /\ rd' = h
                 /\ UNCHANGED <<TotalFiles, TotalBytes>>
            ELSE IF h.verdict = "break" \/ AsEntry(line).Key = <<>>
            THEN /\ rd' = [NewScanner(h) EXCEPT !.pc = "emit"]
                 /\ UNCHANGED <<TotalFiles, TotalBytes>>
            ELSE /\ rd' = h
                 /\ TotalBytes' = TotalBytes + AsEntry(line).Size
                 /\ TotalFiles' = TotalFiles + 1
    /\ UNCHANGED <<metadataFile, subSetFiles, skipFiles, toDownload, emitted,
                   OtherThanReader>>

\* Lines 274-333: one iteration of the emitting pass; the loop's end closes
\* doFiles (the deferred close).  The send blocks while the channel is full.
ReaderEmit ==
    /\ Running
    /\ rd.pc = "emit"
    /\ LET f == ScanFill(rd) IN
       IF f.buf = <<>>
       THEN /\ rd' = [f EXCEPT !.pc = "closed"]
            /\ toDownload' = [toDownload EXCEPT !.closed = TRUE]
            /\ UNCHANGED <<TotalFiles, TotalBytes, emitted>>
       ELSE LET line == Head(f.buf)
                entry == AsEntry(line)
                h == LoopHead([f EXCEPT !.buf = Tail(f.buf)])
            IN
            IF h.verdict = "continue"
            THEN /\ rd' = h
                 /\ UNCHANGED <<TotalFiles, TotalBytes, toDownload, emitted>>
            ELSE IF h.verdict = "break" \/ entry.Key = <<>>
            THEN /\ rd' = [h EXCEPT !.pc = "closed"]
                 /\ toDownload' = [toDownload EXCEPT !.closed = TRUE]
                 /\ UNCHANGED <<TotalFiles, TotalBytes, emitted>>
            ELSE IF entry.Key \in skipFiles
            THEN /\ rd' = h
                 /\ TotalBytes' = TotalBytes - entry.Size
                 /\ TotalFiles' = TotalFiles - 1
                 /\ UNCHANGED <<toDownload, emitted>>
            ELSE /\ Len(toDownload.q) < CapToDownload
                 /\ rd' = h
                 /\ toDownload' = [toDownload EXCEPT
                        !.q = Append(@, [Filename |-> entry.Key, Size |-> entry.Size])]
                 /\ emitted' = Append(emitted, [Filename |-> entry.Key, Size |-> entry.Size])
                 /\ UNCHANGED <<TotalFiles, TotalBytes>>
    /\ UNCHANGED <<metadataFile, subSetFiles, skipFiles, OtherThanReader>>

\* The locals of ReadMetadata before it runs.
ReaderInit ==
    [pc |-> "start", start |-> 0, stride |-> 0, end |-> 0, lineNumber |-> 0,
     strider |-> 0, off |-> 0, buf |-> <<>>, verdict |-> "take"]

\* ---------------------------------------------------------------- bounds of the pipeline

\* Capacity of the downloaded channel (CHAN_DOWNLOADED_FILES).
CapDownloaded == 1
\* Capacity of the scanned channel (CHAN_SCANNED_FILES).
CapScanned == 1
\* Capacity of the archiveReady channel (CHAN_ARCHIVE_FILES).
CapArchiveReady == 1
\* Scanner pool size (CONCURRENT_SCANNERS).
concurrentScans == 2

\* ---------------------------------------------------------------- payloads

\* A nil []byte, and a slice of length n over a pooled buffer of capacity c.
NilBytes == [isNil |-> TRUE, len |-> 0, cap |-> 0]
Slice(n, c) == [isNil |-> FALSE, len |-> n, cap |-> c]

\* The name os.CreateTemp gives the spill file of a key; "" is <<>>.
TempPath(key) == <<"/">> \o key
NoTemp == <<>>

ErrorEvent(task, msg, detail) ==
    [Filename |-> task.Filename, Size |-> task.Size, Err |-> msg, Detail |-> detail]

\* error.go:4: the error bus is a buffered channel (100 slots in the code).
CapErrCh == 1

\* The history of the bus once ev was sent on it.
Post(ev) == errCh (+) SetToBag({ev})

\* A send on the error bus, as every `errCh <- &ErrorEvent{...}` of the
\* stages: it blocks while the buffer is full.
ErrSend ==
    /\ errPending < CapErrCh
    /\ errPending' = errPending + 1

\* ---------------------------------------------------------------- Downloader

\* download.go:49-53: the number of parts of a task.
Parts(task) == IF task.Size > 8 * 1024 * 1024 THEN 8 ELSE 1

\* download.go:38: the sized wait group admits 16 slots.
DownloadSlots == 16

\* download.go:65: the in-memory threshold, and the small pool's buffer size.
InMemLimit == 96 * 1024
SmallBuf == 32 * 1024

\* The slots of the sized wait group in use: those of the workers in flight
\* and those the loop has added for the task it holds.
RECURSIVE SlotsOf(_)
SlotsOf(ws) ==
    IF ws = {} THEN 0
    ELSE LET w == CHOOSE x \in ws : TRUE IN w.parts + SlotsOf(ws \ {w})

SlotsInUse == SlotsOf(dworkers) + dl.added

OtherThanDown == <<readerVars, scanVars, archVars, upVars, scanned, archiveReady>>

\* download.go:45: the select takes a task.  The ready cases of a select are
\* chosen among at random, so this step is possible after cancellation too.
DownloaderRecv ==
    /\ Running
    /\ dl.pc = "select"
    /\ toDownload.q # <<>>
    /\ dl' = [pc |-> "add", task |-> Head(toDownload.q), added |-> 0]
    /\ toDownload' = [toDownload EXCEPT !.q = Tail(@)]
    /\ UNCHANGED <<OtherThanDown, envVars, memVars, errVars, downloaded, dworkers,
                   downloadedHist, DownloadedFiles, DownloadedBytes>>

\* download.go:54-58: swg.Add() once per part, each blocking while all slots
\* are taken; with the last slot the worker goroutine starts.
DownloaderAdd ==
    /\ Running
    /\ dl.pc = "add"
    /\ SlotsInUse < DownloadSlots
    /\ LET want == Parts(dl.task) - dl.added
           free == DownloadSlots - SlotsInUse
           got  == IF want <= free THEN want ELSE free
       IN
       IF got = want
       THEN /\ dworkers' = dworkers \cup
                  { [task |-> dl.task, parts |-> Parts(dl.task), st |-> "run",
                     file |-> <<>>] }
            /\ dl' = [pc |-> "select", task |-> <<>>, added |-> 0]
       ELSE /\ dl' = [dl EXCEPT !.added = @ + got]
            /\ UNCHANGED dworkers
    /\ UNCHANGED <<OtherThanDown, envVars, memVars, errVars, toDownload, downloaded,
                   downloadedHist, DownloadedFiles, DownloadedBytes>>

\* download.go:43-44: ctx.Done() is ready; break leaves the select only, and
\* the for loop comes back to the same select.
DownloaderCtxDone ==
    /\ Running
    /\ dl.pc = "select"
    /\ cancelled
    /\ UNCHANGED vars

\* download.go:46-48 and :39: tasksCh is closed and drained; the function
\* returns and the deferred close(doneCh) runs.
DownloaderReturn ==
    /\ Running
    /\ dl.pc = "select"
    /\ toDownload.q = <<>>
    /\ toDownload.closed
    /\ dl' = [dl EXCEPT !.pc = "returned"]
    /\ downloaded' = [downloaded EXCEPT !.closed = TRUE]
    /\ UNCHANGED <<OtherThanDown, envVars, memVars, errVars, toDownload, dworkers,
                   downloadedHist, DownloadedFiles, DownloadedBytes>>

\* What the object store and the local disk can answer to one download.
\* s3.go:818-846 (to buffer): an error, a byte count other than task.Size
\* ("short"), or the object.  s3.go:723-816 (in parts): an error of CreateTemp or Truncate,
\* an error of one or more parts, or the object.
InlineOutcomes == {"ok", "error", "short"}
SpillOutcomes == {"ok", "tempError", "partError"}

\* A download in parts that returns no path: the variant the payload of the
\* WorkFiles is checked against.
InPartsResultNoPath(outcome, key) == [err |-> outcome # "ok", path |-> NoTemp]

\* s3.go:804-815: the result of downloadObjectInParts once every part
\* goroutine has finished: the first error, or the temp file's name.
InPartsResult(outcome, key) ==
    IF outcome = "ok" THEN [err |-> FALSE, path |-> TempPath(key)]
    ELSE [err |-> TRUE, path |-> NoTemp]

\* s3.go:783-789 and :831-836: the bytes a download adds to DownloadedBytes,
\* one atomic add per Read: the whole object; for a body whose length is not
\* task.Size, one byte less (one byte, for an object listed as empty); for
\* a failed download, the bytes read before the failure (none, here).
BodyBytes(task, outcome) ==
    IF outcome = "ok" THEN task.Size
    ELSE IF outcome = "short" THEN (IF task.Size = 0 THEN 1 ELSE task.Size - 1)
    ELSE 0

\* download.go:65-107: the worker downloads the object, in memory or to a
\* temp file; on an error it posts one ErrorEvent and ends (the deferred
\* swg.Done() calls free its slots).
DownloadRun(w, outcome) ==
    /\ Running
    /\ s3Ready
    /\ w \in dworkers
    /\ w.st = "run"
    /\ IF w.task.Size <= InMemLimit
       THEN /\ outcome \in InlineOutcomes
            /\ LET c == IF w.task.Size <= SmallBuf THEN SmallBuf ELSE InMemLimit IN
               IF outcome = "ok"
               THEN /\ dworkers' = (dworkers \ {w}) \cup
                         { [w EXCEPT !.st = "send",
                              !.file = [Filename |-> w.task.Filename,
                                        Size |-> w.task.Size,
                                        TempFile |-> NoTemp,
                                        Bytes |-> Slice(w.task.Size, c)]] }
                    /\ bufsOut' = bufsOut \cup {w.task.Filename}
                    /\ UNCHANGED errVars
               ELSE /\ dworkers' = dworkers \ {w}
                    /\ ErrSend
                    /\ errCh' = Post(ErrorEvent(w.task,
                                     IF outcome = "short" THEN "Short write for object"
                                     ELSE "Error downloading object to memory", <<>>))
                    /\ UNCHANGED bufsOut
            /\ UNCHANGED tempFiles
       ELSE /\ outcome \in SpillOutcomes
            /\ LET r == InPartsResult(outcome, w.task.Filename) IN
               IF ~r.err
               THEN /\ dworkers' = (dworkers \ {w}) \cup
                         { [w EXCEPT !.st = "send",
                              !.file = [Filename |-> w.task.Filename,
                                        Size |-> w.task.Size,
                                        TempFile |-> r.path,
                                        Bytes |-> NilBytes]] }
                    /\ tempFiles' = tempFiles \cup {r.path}
                    /\ UNCHANGED errVars
               ELSE /\ dworkers' = dworkers \ {w}
                    /\ ErrSend
                    /\ errCh' = Post(ErrorEvent(w.task,
                                     "Error downloading object to temporary file", <<>>))
                    /\ UNCHANGED tempFiles
            /\ UNCHANGED bufsOut
    /\ DownloadedBytes' = DownloadedBytes + BodyBytes(w.task, outcome)
    /\ UNCHANGED <<OtherThanDown, envVars, dl, toDownload, downloaded,
                   downloadedHist, DownloadedFiles>>

\* download.go:94 and :106: the send on doneCh.  It blocks while the channel
\* is full, and panics once the Downloader has closed the channel.
DownloadSend(w) ==
    /\ Running
    /\ w \in dworkers
    /\ w.st = "send"
    /\ IF downloaded.closed
       THEN /\ crashed' = "panic"
            /\ UNCHANGED <<dworkers, downloaded, downloadedHist, DownloadedFiles>>
       ELSE /\ Len(downloaded.q) < CapDownloaded
            /\ downloaded' = [downloaded EXCEPT !.q = Append(@, w.file)]
            /\ downloadedHist' = downloadedHist (+) SetToBag({w.file})
            /\ dworkers' = dworkers \ {w}
            /\ DownloadedFiles' = DownloadedFiles + 1
            /\ UNCHANGED crashed
    /\ UNCHANGED <<OtherThanDown, cancelled, s3Ready, scanReady, memVars, errVars, dl,
                   toDownload, DownloadedBytes>>

\* ---------------------------------------------------------------- Scanner

\* What the engine can report for one scan: (virus name, error).  The
\* library returns its CL_VIRUS error together with the virus name.
Clean == [virusName |-> "", err |-> FALSE]
Virus == [virusName |-> "Eicar-Test-Signature", err |-> TRUE]
ScanError == [virusName |-> "", err |-> TRUE]
EngineResults == {Clean, Virus, ScanError}

OtherThanScan == <<readerVars, downVars, archVars, upVars, toDownload, archiveReady>>

\* A Scanner that enters its loop without waiting for the engine: the variant
\* the readiness gate is checked against.
ScannerReadyNoWait ==
    /\ Running
    /\ sc.pc = "wait"
    /\ sc' = [sc EXCEPT !.pc = "select"]
    /\ UNCHANGED <<OtherThanScan, envVars, memVars, errVars, downloaded, scanned,
                   sworkers, scanLog, scannedHist, ScannedFiles>>

\* part_000:163: scanReady.Wait() returns once the engine is initialised.
ScannerReady ==
    /\ Running
    /\ sc.pc = "wait"
    /\ scanReady
    /\ sc' = [sc EXCEPT !.pc = "select"]
    /\ UNCHANGED <<OtherThanScan, envVars, memVars, errVars, downloaded, scanned,
                   sworkers, scanLog, scannedHist, ScannedFiles>>

\* part_000:169: the select takes a DownloadedFile.
ScannerRecv ==
    /\ Running
    /\ sc.pc = "select"
    /\ downloaded.q # <<>>
    /\ sc' = [pc |-> "add", task |-> Head(downloaded.q)]
    /\ downloaded' = [downloaded EXCEPT !.q = Tail(@)]
    /\ UNCHANGED <<OtherThanScan, envVars, memVars, errVars, scanned,
                   sworkers, scanLog, scannedHist, ScannedFiles>>

\* A Scanner that starts a worker for every task it takes, whatever the
\* number running: the variant the pool bound is checked against.
ScannerAddUnbounded ==
    /\ Running
    /\ sc.pc = "add"
    /\ sworkers' = sworkers \cup { [task |-> sc.task, st |-> "run", file |-> <<>>] }
    /\ sc' = [pc |-> "select", task |-> <<>>]
    /\ UNCHANGED <<OtherThanScan, envVars, memVars, errVars, downloaded, scanned,
                   scanLog, scannedHist, ScannedFiles>>

\* part_000:176-177: swg.Add() blocks while concurrentScans workers run; then
\* the worker goroutine starts.
ScannerAdd ==
    /\ Running
    /\ sc.pc = "add"
    /\ Cardinality(sworkers) < concurrentScans
    /\ sworkers' = sworkers \cup { [task |-> sc.task, st |-> "run", file |-> <<>>] }
    /\ sc' = [pc |-> "select", task |-> <<>>]
    /\ UNCHANGED <<OtherThanScan, envVars, memVars, errVars, downloaded, scanned,
                   scanLog, scannedHist, ScannedFiles>>

\* part_000:167-168: ctx.Done() is ready; break leaves the select only.
ScannerCtxDone ==
    /\ Running
    /\ sc.pc = "select"
    /\ cancelled
    /\ UNCHANGED vars

\* part_000:170-171: tasksCh is closed and drained; swg.Wait() follows.
ScannerClosed ==
    /\ Running
    /\ sc.pc = "select"
    /\ downloaded.q = <<>>
    /\ downloaded.closed
    /\ sc' = [sc EXCEPT !.pc = "swgwait"]
    /\ UNCHANGED <<OtherThanScan, envVars, memVars, errVars, downloaded, scanned,
                   sworkers, scanLog, scannedHist, ScannedFiles>>

\* part_000:171-173 and :161: swg.Wait() returns when no worker is left; the
\* function returns and the deferred close(doneCh) runs.
ScannerReturn ==
    /\ Running
    /\ sc.pc = "swgwait"
    /\ sworkers = {}
    /\ sc' = [sc EXCEPT !.pc = "returned"]
    /\ scanned' = [scanned EXCEPT !.closed = TRUE]
    /\ UNCHANGED <<OtherThanScan, envVars, memVars, errVars, downloaded,
                   sworkers, scanLog, scannedHist, ScannedFiles>>

\* A rejection that keeps the payload: the variant the Scanner's clean-up is
\* checked against.
ReleaseNothing(held, name) == held

\* putMemory (download.go:26-34) for the buffer of an object, os.Remove for
\* its temp file.
Release(held, name) == held \ {name}

\* part_000:181-263: the worker's scan.  A zero-size file is not scanned and
\* goes on as {Size, Filename}.  Otherwise the engine is asked (in memory, or
\* on the temp file): a virus name or an error posts one ErrorEvent, releases
\* the payload and ends the worker (ScannedFiles is counted by the deferred
\* add); a clean file goes on with the payload it came with.
ScanRun(w, memOpens, res) ==
    /\ Running
    /\ w \in sworkers
    /\ w.st = "run"
    /\ IF w.task.Size = 0
       THEN /\ memOpens /\ res = Clean
            /\ sworkers' = (sworkers \ {w}) \cup
                  { [w EXCEPT !.st = "send",
                       !.file = [Filename |-> w.task.Filename, Size |-> w.task.Size,
                                 TempFile |-> NoTemp, Bytes |-> NilBytes]] }
            /\ UNCHANGED <<errVars, memVars, scanLog, ScannedFiles>>
       ELSE IF w.task.TempFile = NoTemp /\ ~memOpens
       THEN /\ res = Clean
            /\ sworkers' = sworkers \ {w}
            /\ ErrSend
            /\ errCh' = Post(ErrorEvent(w.task, "failed to open memory for scanning", <<>>))
            /\ bufsOut' = Release(bufsOut, w.task.Filename)
            /\ ScannedFiles' = ScannedFiles + 1
            /\ UNCHANGED <<tempFiles, scanLog>>
       ELSE /\ memOpens
            /\ res \in EngineResults
            /\ scanLog' = scanLog \cup
                  { [Filename |-> w.task.Filename, TempFile |-> w.task.TempFile,
                     Bytes |-> w.task.Bytes, res |-> res] }
            /\ IF res.virusName # ""
               THEN /\ ErrSend
                    /\ errCh' = Post(ErrorEvent(w.task, "virus found", res.virusName))
                    /\ sworkers' = sworkers \ {w}
                    /\ ScannedFiles' = ScannedFiles + 1
                    /\ IF w.task.TempFile = NoTemp
                       THEN /\ bufsOut' = Release(bufsOut, w.task.Filename)
                            /\ UNCHANGED tempFiles
                       ELSE /\ tempFiles' = Release(tempFiles, w.task.TempFile)
                            /\ UNCHANGED bufsOut
               ELSE IF res.err
               THEN /\ ErrSend
                    /\ errCh' = Post(ErrorEvent(w.task, "error scanning", <<>>))
                    /\ sworkers' = sworkers \ {w}
                    /\ ScannedFiles' = ScannedFiles + 1
                    /\ IF w.task.TempFile = NoTemp
                       THEN /\ bufsOut' = Release(bufsOut, w.task.Filename)
                            /\ UNCHANGED tempFiles
                       ELSE /\ tempFiles' = Release(tempFiles, w.task.TempFile)
                            /\ UNCHANGED bufsOut
               ELSE /\ sworkers' = (sworkers \ {w}) \cup
                          { [w EXCEPT !.st = "send",
                               !.file = [Filename |-> w.task.Filename,
                                         Size |-> w.task.Size,
                                         TempFile |-> w.task.TempFile,
                                         Bytes |-> IF w.task.TempFile = NoTemp
                                                   THEN w.task.Bytes ELSE NilBytes]] }
                    /\ UNCHANGED <<errVars, memVars, ScannedFiles>>
    /\ UNCHANGED <<OtherThanScan, envVars, sc, downloaded, scanned, scannedHist>>

\* part_000:183, :227 and :259: the send on doneCh, blocking while the
\* channel is full; then the worker ends (deferred add and swg.Done()).
ScanSend(w) ==
    /\ Running
    /\ w \in sworkers
    /\ w.st = "send"
    /\ Len(scanned.q) < CapScanned
    /\ scanned' = [scanned EXCEPT !.q = Append(@, w.file)]
    /\ scannedHist' = scannedHist (+) SetToBag({w.file})
    /\ sworkers' = sworkers \ {w}
    /\ ScannedFiles' = ScannedFiles + 1
    /\ UNCHANGED <<OtherThanScan, envVars, memVars, errVars, sc, downloaded, scanLog>>

\* ---------------------------------------------------------------- Archiver

OtherThanArch == <<readerVars, downVars, scanVars, upVars, toDownload, downloaded,
                   bufsOut, errVars>>

\* part_003:132-153: OpenArchive creates the next segment file.
OpenArchive(files) == Append(files, [entries |-> <<>>, state |-> "open"])

\* part_003:155-169: CloseArchive flushes and closes the open segment file.
CloseArchive(files, n) == [files EXCEPT ![n].state = "closed"]

\* part_003:86-103: the tar header of the task is written into segment n.
WriteHeader(files, n, task) ==
    [files EXCEPT ![n].entries = Append(@, [Name |-> task.Filename, Size |-> task.Size])]

\* A roll decided on the bytes already written alone: the variant the size
\* cap property is checked against.
MustRollLate(used, size, cap) == used > cap

\* A roll that allows one byte above the cap: the variant the handling of an
\* object of exactly the cap is checked against.
MustRollSlack(used, size, cap) == used > 0 /\ used + size > cap + 1

\* part_003:69: the open segment is rolled before this task is packed.
MustRoll(used, size, cap) == used > 0 /\ used + size > cap

\* A packing that counts one byte for every header: the variant the byte
\* count of the empty objects is checked against.
PackCountsHeader(a, files, n, used, task) ==
    /\ ar' = [a EXCEPT !.pc = "select", !.task = <<>>, !.tgzFile = n,
                       !.contents = Append(a.contents, task.Filename)]
    /\ segFiles' = [files EXCEPT ![n].entries =
                       Append(@, [Name |-> task.Filename, Size |-> task.Size])]
    /\ archiveBytesWritten' = used + task.Size + 1
    /\ tempFiles' = IF task.Size > 0 /\ task.TempFile # NoTemp
                    THEN tempFiles \ {task.TempFile} ELSE tempFiles

\* A packing that leaves the name of an empty object off the contents list:
\* the variant the contents of the ArchiveFiles are checked against.
PackUnlistedEmpty(a, files, n, used, task) ==
    /\ ar' = [a EXCEPT !.pc = "select", !.task = <<>>, !.tgzFile = n,
                       !.contents = IF task.Size = 0 THEN a.contents
                                    ELSE Append(a.contents, task.Filename)]
    /\ segFiles' = WriteHeader(files, n, task)
    /\ archiveBytesWritten' = used + task.Size
    /\ tempFiles' = IF task.Size > 0 /\ task.TempFile # NoTemp
                    THEN tempFiles \ {task.TempFile} ELSE tempFiles

\* part_003:86-124: append the name to contents, write the header, count
\* the bytes, copy the payload and unlink the temp file it came from.
\* a is the Archiver's record, n the open segment, used its byte count.
Pack(a, files, n, used, task) ==
    /\ ar' = [a EXCEPT !.pc = "select", !.task = <<>>, !.tgzFile = n,
                       !.contents = Append(a.contents, task.Filename)]
    /\ segFiles' = WriteHeader(files, n, task)
    /\ archiveBytesWritten' = used + task.Size
    /\ tempFiles' = IF task.Size > 0 /\ task.TempFile # NoTemp
                    THEN tempFiles \ {task.TempFile} ELSE tempFiles

\* An ArchiveFile numbered one below its segment: the variant the numbering
\* of the segments is checked against.
ClosedArchiveIndexBelow(a) == [Filename |-> a.tgzFile - 1, Contents |-> a.contents]

\* The ArchiveFile of the segment the Archiver has just closed; the contents
\* are copied into a new slice (part_003:51-55 and :72-76).
ClosedArchive(a) == [Filename |-> a.tgzFile, Contents |-> a.contents]

\* part_003:41-103: the select takes a task.  The first segment is opened
\* when none is open; when the task does not fit, the segment is closed and
\* the Archiver goes on to send its ArchiveFile; else the task is packed.
ArchiverRecv ==
    /\ Running
    /\ ar.pc = "select"
    /\ scanned.q # <<>>
    /\ LET task == Head(scanned.q)
           files == IF archiveOpen THEN segFiles ELSE OpenArchive(segFiles)
           count == IF archiveOpen THEN archiveCount ELSE archiveCount + 1
           tgz == IF archiveOpen THEN ar.tgzFile ELSE count
       IN
       /\ scanned' = [scanned EXCEPT !.q = Tail(@)]
       /\ archiveCount' = count
       /\ IF MustRoll(archiveBytesWritten, task.Size, sizeCapLimit)
          THEN /\ segFiles' = CloseArchive(files, tgz)
               /\ archiveOpen' = FALSE
               /\ ar' = [ar EXCEPT !.pc = "emitRoll", !.task = task, !.tgzFile = tgz]
               /\ UNCHANGED <<archiveBytesWritten, tempFiles>>
          ELSE /\ archiveOpen' = TRUE
               /\ Pack(ar, files, tgz, archiveBytesWritten, task)
    /\ UNCHANGED <<OtherThanArch, envVars, mainVars, archiveReady, archiveHist>>

\* part_003:76-103: the ArchiveFile of the closed segment is sent (the send
\* blocks while archiveReady is full), the next segment is opened and the
\* task that did not fit is packed into it.
ArchiverEmitRoll ==
    /\ Running
    /\ ar.pc = "emitRoll"
    /\ Len(archiveReady.q) < CapArchiveReady
    /\ archiveReady' = [archiveReady EXCEPT !.q = Append(@, ClosedArchive(ar))]
    /\ archiveHist' = Append(archiveHist, ClosedArchive(ar))
    /\ archiveCount' = archiveCount + 1
    /\ archiveOpen' = TRUE
    /\ Pack([ar EXCEPT !.contents = <<>>], OpenArchive(segFiles), archiveCount + 1,
            0, ar.task)
    /\ UNCHANGED <<OtherThanArch, envVars, mainVars, scanned>>

\* part_003:46-50: tasksCh is closed and drained.  With no segment ever
\* opened the Archiver returns (the deferred close(doneCh) runs); else it
\* closes the open segment and goes on to send the last ArchiveFile.
ArchiverClosed ==
    /\ Running
    /\ ar.pc = "select"
    /\ scanned.q = <<>>
    /\ scanned.closed
    /\ IF ar.tgzFile = 0
       THEN /\ ar' = [ar EXCEPT !.pc = "returned"]
            /\ archiveReady' = [archiveReady EXCEPT !.closed = TRUE]
            /\ UNCHANGED <<segFiles, archiveOpen>>
       ELSE /\ ar' = [ar EXCEPT !.pc = "emitFinal"]
            /\ segFiles' = IF archiveOpen THEN CloseArchive(segFiles, ar.tgzFile)
                           ELSE segFiles
            /\ archiveOpen' = FALSE
            /\ UNCHANGED archiveReady
    /\ UNCHANGED <<OtherThanArch, envVars, mainVars, scanned, archiveCount,
                   archiveBytesWritten, archiveHist, tempFiles>>

\* part_003:51-58: the last ArchiveFile is sent and the Archiver returns.
ArchiverEmitFinal ==
    /\ Running
    /\ ar.pc = "emitFinal"
    /\ Len(archiveReady.q) < CapArchiveReady
    /\ archiveReady' = [q |-> Append(archiveReady.q, ClosedArchive(ar)), closed |-> TRUE]
    /\ archiveHist' = Append(archiveHist, ClosedArchive(ar))
    /\ ar' = [ar EXCEPT !.pc = "returned", !.contents = <<>>]
    /\ UNCHANGED <<OtherThanArch, envVars, mainVars, scanned, archiveCount,
                   archiveOpen, archiveBytesWritten, segFiles, tempFiles>>

\* part_003:39-40: ctx.Done() is ready; the Archiver returns, leaving the
\* open segment as it is.
ArchiverCtxDone ==
    /\ Running
    /\ ar.pc = "select"
    /\ cancelled
    /\ ar' = [ar EXCEPT !.pc = "returned"]
    /\ archiveReady' = [archiveReady EXCEPT !.closed = TRUE]
    /\ UNCHANGED <<OtherThanArch, envVars, mainVars, scanned, archiveCount,
                   archiveOpen, archiveBytesWritten, segFiles, archiveHist, tempFiles>>

\* ---------------------------------------------------------------- Uploader

OtherThanUp == <<readerVars, downVars, memVars, scanVars, toDownload, downloaded,
                 scanned, errVars>>

\* What the destination store and the local disk can answer to one upload
\* (s3.go:848-943): the segment file cannot be opened or is empty,
\* CreateMultipartUpload fails, an UploadPart fails, CompleteMultipartUpload
\* fails, or all succeed.
UploadOutcomes == {"ok", "fileError", "createError", "partError", "completeError"}

\* An upload that does not report the failure of CompleteMultipartUpload:
\* the variant the upload.log ordering is checked against.
uploadDropsCompleteError(outcome) ==
    [err |-> outcome \notin {"ok", "completeError"}, completed |-> outcome = "ok"]

\* s3.go:848-943: uploadFileInParts returns an error unless every call
\* succeeded; the object exists at the destination once the upload completed.
uploadFileInParts(outcome) == [err |-> outcome # "ok", completed |-> outcome = "ok"]

\* A log loop that stops one name short: the variant the completeness of
\* upload.log is checked against.
LogLinesButLast(log, contents) == log \o SubSeq(contents, 1, Len(contents) - 1)

\* uploader.go:39-41: fmt.Fprintln(f, fileName) for every name of Contents.
LogLines(log, contents) == log \o contents

\* The bytes of a segment file: those of its entries and one per tar header
\* (the compressed length itself is not modelled).
ArchiveBytes(entries) == SumSizes(entries) + Len(entries)

\* common.go:115-126 and s3.go:903: the bytes SectionReader.Read adds to
\* UploadedBytes while the parts are sent: every byte of the file once the
\* parts were uploaded, none when the upload failed before or in its parts.
SectionBytes(outcome, entries) ==
    IF outcome \in {"ok", "completeError"} THEN ArchiveBytes(entries) ELSE 0

\* uploader.go:26-43: the select takes an ArchiveFile and uploads it.  An
\* error ends the process (log.Fatal); else the contents are appended to
\* upload.log, the segment file is removed and UploadedFiles is counted.
UploaderRecv(outcome) ==
    /\ Running
    /\ up.pc = "select"
    /\ archiveReady.q # <<>>
    /\ s3Ready
    /\ LET task == Head(archiveReady.q)
           r == uploadFileInParts(outcome)
       IN
       /\ archiveReady' = [archiveReady EXCEPT !.q = Tail(@)]
       /\ UploadedBytes' = UploadedBytes +
                              SectionBytes(outcome, segFiles[task.Filename].entries)
       /\ IF r.err
          THEN /\ crashed' = "fatal"
               /\ UNCHANGED <<uploadLog, segFiles, dstObjects, UploadedFiles>>
          ELSE /\ dstObjects' = IF r.completed THEN dstObjects \cup {task.Filename}
                                ELSE dstObjects
               /\ uploadLog' = LogLines(uploadLog, task.Contents)
               /\ segFiles' = [segFiles EXCEPT ![task.Filename].state = "removed"]
               /\ UploadedFiles' = UploadedFiles + 1
               /\ UNCHANGED crashed
    /\ UNCHANGED <<OtherThanUp, cancelled, s3Ready, scanReady, up, uploaderDone,
                   logBase, ar, mainVars, archiveCount, archiveOpen,
                   archiveBytesWritten, archiveHist>>

\* uploader.go:24-25: ctx.Done() is ready; break leaves the select only.
UploaderCtxDone ==
    /\ Running
    /\ up.pc = "select"
    /\ cancelled
    /\ UNCHANGED vars

\* uploader.go:27-30 and :14: tasksCh is closed and drained; the Uploader
\* returns and the deferred close(doneCh) runs.
UploaderReturn ==
    /\ Running
    /\ up.pc = "select"
    /\ archiveReady.q = <<>>
    /\ archiveReady.closed
    /\ up' = [up EXCEPT !.pc = "returned"]
    /\ uploaderDone' = TRUE
    /\ UNCHANGED <<OtherThanUp, envVars, archVars, archiveReady, dstObjects, logBase,
                   UploadedFiles, UploadedBytes, uploadLog>>

\* ---------------------------------------------------------------- environment

\* main once its index phase is over: metadata.jsonl is on disk and no
\* listing is in progress.
Started ==
    [pc |-> "run", found |-> TRUE, onDisk |-> TRUE, bucket |-> <<>>, listings |-> 0]

\* The cancellation context is cancelled.
Cancel ==
    /\ Running
    /\ ~cancelled
    /\ cancelled' = TRUE
    /\ UNCHANGED <<readerVars, crashed, s3Ready, scanReady, downVars, memVars, scanVars,
                   archVars, upVars, errVars, toDownload, downloaded, scanned, archiveReady>>

\* s3.go:647-721: the init goroutine has built the S3 client; s3Ready.Done().
S3Init ==
    /\ Running
    /\ ~s3Ready
    /\ s3Ready' = TRUE
    /\ UNCHANGED <<readerVars, crashed, cancelled, scanReady, downVars, memVars, scanVars,
                   archVars, upVars, errVars, toDownload, downloaded, scanned, archiveReady>>

\* part_000:51-154: the init goroutine has loaded the engine; scanReady.Done().
ClamInit ==
    /\ Running
    /\ ~scanReady
    /\ scanReady' = TRUE
    /\ UNCHANGED <<readerVars, crashed, cancelled, s3Ready, downVars, memVars, scanVars,
                   archVars, upVars, errVars, toDownload, downloaded, scanned, archiveReady>>

\* ---------------------------------------------------------------- initial states

\* The stages before their first step: log is the upload.log of the earlier
\* runs, subset the SUBSET fields and cap the SIZECAP.
StagesIdle(log, subset, cap) ==
    /\ uploadLog = log
    /\ logBase = Len(log)
    /\ subSetFiles = subset
    /\ skipFiles = {}
    /\ rd = ReaderInit
    /\ toDownload = NewChan
    /\ emitted = <<>>
    /\ cancelled = FALSE
    /\ crashed = ""
    /\ s3Ready = FALSE
    /\ scanReady = FALSE
    /\ errCh = EmptyBag
    /\ errPending = 0
    /\ DownloadedBytes = 0
    /\ UploadedBytes = 0
    /\ UploadedArchivedFiles = 0
    /\ dr = {}
    /\ dl = [pc |-> "select", task |-> <<>>, added |-> 0]
    /\ dworkers = {}
    /\ downloaded = NewChan
    /\ downloadedHist = EmptyBag
    /\ bufsOut = {}
    /\ tempFiles = {}
    /\ DownloadedFiles = 0
    /\ sc = [pc |-> "wait", task |-> <<>>]
    /\ sworkers = {}
    /\ scanLog = {}
    /\ scanned = NewChan
    /\ scannedHist = EmptyBag
    /\ ScannedFiles = 0
    /\ ar = [pc |-> "select", task |-> <<>>, tgzFile |-> 0, contents |-> <<>>]
    /\ sizeCapLimit = cap
    /\ archiveCount = 0
    /\ archiveOpen = FALSE
    /\ archiveBytesWritten = 0
    /\ segFiles = <<>>
    /\ archiveReady = NewChan
    /\ archiveHist = <<>>
    /\ up = [pc |-> "select"]
    /\ uploaderDone = FALSE
    /\ dstObjects = {}
    /\ UploadedFiles = 0

\* The state when main has taken the totals of metadata.jsonl and started the
\* stages: entries are the entry lines of the metadata file.
InitWith(entries, log, subset, cap) ==
    /\ metadataFile = IndexFile(entries)
    /\ TotalFiles = SummaryLine(entries).total_objects
    /\ TotalBytes = SummaryLine(entries).total_size
    /\ mn = Started
    /\ calc = NoCall
    /\ StagesIdle(log, subset, cap)

\* The state in which a pure function is called: the stages have not moved.
AtRest ==
    /\ metadataFile = IndexFile(<<>>)
    /\ TotalFiles = 0
    /\ TotalBytes = 0
    /\ mn = Started
    /\ StagesIdle(<<>>, <<>>, 1)

\* The consumer of the error bus takes one ErrorEvent off the channel and
\* appends it to error.log.
ErrorLogger ==
    /\ Running
    /\ errPending > 0
    /\ errPending' = errPending - 1
    /\ UNCHANGED <<readerVars, envVars, downVars, memVars, scanVars, archVars, upVars,
                   errCh, toDownload, downloaded, scanned, archiveReady>>

\* ---------------------------------------------------------------- the pipeline

\* The inputs of the pipeline runs: up to two objects, each empty, small
\* (in memory) or above the in-memory threshold (spilled to a temp file),
\* or three small objects, or one object of exactly the in-memory threshold
\* and one of a byte more;
\* an upload.log that is empty or names the first key; two size caps;
\* SUBSET unset or 0:1.
PipeSizes == {0, 1, InMemLimit + 1}
PipeEntries ==
    { <<>> }
    \cup { << MetaEntry(KeyA, s) >> : s \in PipeSizes }
    \cup { << MetaEntry(KeyA, s), MetaEntry(KeyB, t) >> : s, t \in PipeSizes }
    \cup { << MetaEntry(KeyA, 1), MetaEntry(KeyB, 1), MetaEntry(KeyASp, 1) >> }
    \cup { << MetaEntry(KeyA, InMemLimit), MetaEntry(KeyB, InMemLimit + 1) >> }
PipeLogs == { <<>>, <<KeyA>> }
PipeCaps == { 1, InMemLimit + 2 }
PipeSubsets == { <<>>, <<0, 1>> }

Init ==
    \E entries \in PipeEntries, log \in PipeLogs, cap \in PipeCaps,
       subset \in PipeSubsets :
        InitWith(entries, log, subset, cap)

Next ==
    \/ ReaderStart
    \/ ReaderCount
    \/ ReaderEmit
    \/ ErrorLogger
    \/ DownloaderRecv
    \/ DownloaderAdd
    \/ DownloaderCtxDone
    \/ DownloaderReturn
    \/ \E w \in dworkers, o \in InlineOutcomes \cup SpillOutcomes : DownloadRun(w, o)
    \/ \E w \in dworkers : DownloadSend(w)
    \/ ScannerReady
    \/ ScannerRecv
    \/ ScannerAdd
    \/ ScannerCtxDone
    \/ ScannerClosed
    \/ ScannerReturn
    \/ \E w \in sworkers, m \in BOOLEAN, r \in EngineResults : ScanRun(w, m, r)
    \/ \E w \in sworkers : ScanSend(w)
    \/ ArchiverRecv
    \/ ArchiverEmitRoll
    \/ ArchiverClosed
    \/ ArchiverEmitFinal
    \/ ArchiverCtxDone
    \/ \E o \in UploadOutcomes : UploaderRecv(o)
    \/ UploaderCtxDone
    \/ UploaderReturn
    \/ Cancel
    \/ S3Init
    \/ ClamInit

Spec == Init /\ [][Next]_vars

\* ---------------------------------------------------------------- the Reader alone

\* The Reader's inputs: every list of up to MaxLines distinct keys, an
\* upload.log of at most one line, and SUBSET unset or START:STRIDE[:END].
ReaderEntries ==
    { [i \in 1..Len(ks) |-> MetaEntry(ks[i], ReaderSize(ks[i]))] :
        ks \in KeySeqs(KeyPool, MaxLines) }
ReaderLogs == { <<>> } \cup { <<k>> : k \in KeyPool }
ReaderSubsets ==
    { <<>> }
    \cup { <<s, t>> : s \in 0..MaxStart, t \in 1..MaxStride }
    \cup { <<s, t, e>> : s \in 0..MaxStart, t \in 1..MaxStride, e \in 0..MaxLines }

InitReader ==
    \E entries \in ReaderEntries, log \in ReaderLogs, subset \in ReaderSubsets :
        InitWith(entries, log, subset, 1)

\* download.go:45: the other end of toDownload takes the task at its head.
TaskTaken ==
    /\ Running
    /\ toDownload.q # <<>>
    /\ toDownload' = [toDownload EXCEPT !.q = Tail(@)]
    /\ UNCHANGED <<readerVars, OtherThanReader>>

NextReader ==
    \/ ReaderStart
    \/ ReaderCount
    \/ ReaderEmit
    \/ TaskTaken

SpecReader == InitReader /\ [][NextReader]_vars

\* ---------------------------------------------------------------- the Archiver and the Uploader

\* Largest number of WorkFiles that arrive on the scanned channel, and the
\* largest size of one (the size caps run over 1..MaxSize).
MaxArrivals == 3
MaxSize == 3

\* The name of the i-th WorkFile to arrive: i characters.
ArrivalName(i) == [j \in 1..i |-> "x"]

\* Both init goroutines are done and the stages before the Archiver have
\* nothing in flight.
InitArchiver ==
    \E cap \in 1..MaxSize :
        /\ metadataFile = IndexFile(<<>>)
        /\ uploadLog = <<>>
        /\ logBase = 0
        /\ subSetFiles = <<>>
        /\ skipFiles = {}
        /\ TotalFiles = 0
        /\ TotalBytes = 0
        /\ rd = [ReaderInit EXCEPT !.pc = "closed"]
        /\ toDownload = [q |-> <<>>, closed |-> TRUE]
        /\ emitted = <<>>
        /\ cancelled = FALSE
        /\ crashed = ""
        /\ s3Ready = TRUE
        /\ scanReady = TRUE
        /\ errCh = EmptyBag
        /\ errPending = 0
        /\ DownloadedBytes = 0
        /\ UploadedBytes = 0
        /\ UploadedArchivedFiles = 0
        /\ dr = {}
        /\ calc = NoCall
        /\ mn = Started
        /\ dl = [pc |-> "returned", task |-> <<>>, added |-> 0]
        /\ dworkers = {}
        /\ downloaded = [q |-> <<>>, closed |-> TRUE]
        /\ downloadedHist = EmptyBag
        /\ bufsOut = {}
        /\ tempFiles = {}
        /\ DownloadedFiles = 0
        /\ sc = [pc |-> "swgwait", task |-> <<>>]
        /\ sworkers = {}
        /\ scanLog = {}
        /\ scanned = NewChan
        /\ scannedHist = EmptyBag
        /\ ScannedFiles = 0
        /\ ar = [pc |-> "select", task |-> <<>>, tgzFile |-> 0, contents |-> <<>>]
        /\ sizeCapLimit = cap
        /\ archiveCount = 0
        /\ archiveOpen = FALSE
        /\ archiveBytesWritten = 0
        /\ segFiles = <<>>
        /\ archiveReady = NewChan
        /\ archiveHist = <<>>
        /\ up = [pc |-> "select"]
        /\ uploaderDone = FALSE
        /\ dstObjects = {}
        /\ UploadedFiles = 0

\* part_000:226-231: a scan worker sends a clean WorkFile of some size (held
\* in memory, as every object up to InMemLimit is).
Arrive(size) ==
    /\ Running
    /\ sc.pc = "swgwait"
    /\ ScannedFiles < MaxArrivals
    /\ Len(scanned.q) < CapScanned
    /\ LET name == ArrivalName(ScannedFiles + 1)
           file == [Filename |-> name, Size |-> size, TempFile |-> NoTemp,
                    Bytes |-> IF size = 0 THEN NilBytes ELSE Slice(size, SmallBuf)]
       IN
       /\ scanned' = [scanned EXCEPT !.q = Append(@, file)]
       /\ scannedHist' = scannedHist (+) SetToBag({file})
    /\ ScannedFiles' = ScannedFiles + 1
    /\ UNCHANGED <<OtherThanScan, envVars, memVars, errVars, sc, downloaded, sworkers,
                   scanLog>>

NextArchiver ==
    \/ \E size \in 0..MaxSize : Arrive(size)
    \/ ScannerReturn
    \/ ArchiverRecv
    \/ ArchiverEmitRoll
    \/ ArchiverClosed
    \/ ArchiverEmitFinal
    \/ \E o \in UploadOutcomes : UploaderRecv(o)
    \/ UploaderReturn

SpecArchiver == InitArchiver /\ [][NextArchiver]_vars

\* ---------------------------------------------------------------- vocabulary of the properties

\* The names of the items of a queue or history.
NamesOf(s) == { s[i].Filename : i \in 1..Len(s) }

\* The number of items of a bag that belong to the set S.
CountIn(bag, S) ==
    BagCardinality([e \in (DOMAIN bag) \cap S |-> bag[e]])

\* The tasks the Downloader has taken off toDownload.
TakenNames == NamesOf(emitted) \ NamesOf(toDownload.q)

\* The messages of the ErrorEvents the download workers post.
DownloadErrs ==
    { "Short write for object", "Error downloading object to memory",
      "Error downloading object to temporary file" }

\* The WorkFiles sent on the output queue for a key, and the ErrorEvents of
\* the download stage posted for it.
WorkFilesOf(name) ==
    CountIn(downloadedHist, { f \in DOMAIN downloadedHist : f.Filename = name })
DownloadErrorsOf(name) ==
    CountIn(errCh, { e \in DOMAIN errCh : e.Filename = name /\ e.Err \in DownloadErrs })

\* The download stage has come to its end: the Downloader has returned and
\* no download goroutine is left, or a panic has ended the goroutines.
DownloadStageEnded ==
    \/ crashed = "panic"
    \/ dl.pc = "returned" /\ dworkers = {}

\* C1: once the download stage has ended, every DownloadTask the Downloader
\* took has produced exactly one WorkFile on the output queue or exactly one
\* ErrorEvent: never both, never neither.
C1_ExactlyOneOutcome ==
    DownloadStageEnded =>
        \A name \in TakenNames : WorkFilesOf(name) + DownloadErrorsOf(name) = 1

\* The lines appended to upload.log during this run.
NewLines == SubSeq(uploadLog, logBase + 1, Len(uploadLog))

\* The segment of an ArchiveFile is at the destination: its multipart upload
\* was completed.
Uploaded(f) == f.Filename \in dstObjects

\* The closed segments: those CloseArchive has closed (uploaded and removed
\* ones included).
ClosedSegments == { n \in 1..Len(segFiles) : segFiles[n].state # "open" }

NonZero(entries) == { i \in 1..Len(entries) : entries[i].Size > 0 }

\* The Archiver has just closed segment ar.tgzFile and not yet reset its
\* byte count.
JustClosed == ar.pc \in {"emitRoll", "emitFinal"}

TrackedCountExact ==
    JustClosed => SumSizes(segFiles[ar.tgzFile].entries) = archiveBytesWritten

\* C2 as stated: for every closed segment the entry sizes sum to the tracked
\* byte count, and the sum is within sizeCap unless the segment consists of
\* exactly one entry, whose size exceeds sizeCap.
C2_CapAsStated ==
    /\ TrackedCountExact
    /\ \A n \in ClosedSegments :
          LET entries == segFiles[n].entries IN
          \/ SumSizes(entries) <= sizeCapLimit
          \/ Len(entries) = 1 /\ entries[1].Size > sizeCapLimit

\* C2 amended: for every closed segment the entry sizes sum to the tracked
\* byte count, and the sum is within sizeCap unless exactly one entry of the
\* segment has a size other than zero and that size exceeds sizeCap (entries
\* of size zero may share its segment).
C2_CapAmended ==
    /\ TrackedCountExact
    /\ \A n \in ClosedSegments :
          LET entries == segFiles[n].entries IN
          \/ SumSizes(entries) <= sizeCapLimit
          \/ \E i \in 1..Len(entries) :
                /\ NonZero(entries) = {i}
                /\ entries[i].Size > sizeCapLimit

\* The Archiver rolls away from a segment that holds an empty entry and one
\* above the cap.
C2_Witness ==
    /\ ar.pc = "emitRoll"
    /\ ar.tgzFile \in ClosedSegments
    /\ Len(segFiles[ar.tgzFile].entries) = 2
    /\ SumSizes(segFiles[ar.tgzFile].entries) > sizeCapLimit
    /\ archiveBytesWritten > sizeCapLimit

C4_LogIsUnionOfContents ==
    uploaderDone /\ crashed = "" =>
        /\ \A j \in 1..Len(archiveHist) : Uploaded(archiveHist[j])
        /\ Range(NewLines) = UNION { Range(archiveHist[j].Contents) : j \in 1..Len(archiveHist) }
        /\ \A j, k \in 1..Len(archiveHist) :
              j # k => Range(archiveHist[j].Contents) \cap Range(archiveHist[k].Contents) = {}

\* A run that ended with two segments uploaded and both keys logged.
C4_Witness ==
    /\ uploaderDone
    /\ crashed = ""
    /\ Len(archiveHist) = 2
    /\ Len(NewLines) = 2

\* The lines upload.log had when the run started.
InitialLog == SubSeq(uploadLog, 1, logBase)

\* C5: the Reader never emits a DownloadTask for a key that is a line of
\* upload.log at the start of the run.
C5_NoTaskForLoggedKey ==
    \A i \in 1..Len(emitted) : emitted[i].Filename \notin Range(InitialLog)

\* The messages of the ErrorEvents the scan workers post.
ScanErrs == { "virus found", "error scanning", "failed to open memory for scanning" }

\* The objects an ErrorEvent was posted for, the objects the Scanner passed
\* on (download and scan succeeded), and the objects written into a segment.
FailedNames == { e.Filename : e \in DOMAIN errCh }
SucceededNames == { f.Filename : f \in DOMAIN scannedHist }
PackedNames ==
    UNION { { segFiles[n].entries[i].Name : i \in 1..Len(segFiles[n].entries) } :
              n \in 1..Len(segFiles) }

\* The process has come to its end by itself: the Uploader's done channel is
\* closed, or a panic has ended it.
RunEnded == uploaderDone \/ crashed = "panic"

\* C6: an object that failed (download error, virus, scan error) is in no
\* segment and on no line written to upload.log, and its failure does not
\* stop the pipeline: at the end of a run that was neither cancelled nor
\* ended by an upload failure, every object whose download and scan
\* succeeded is packed into a segment.
C6_FailureIsPerObject ==
    /\ FailedNames \cap (PackedNames \cup Range(NewLines)) = {}
    /\ (FailedNames # {} /\ ~cancelled /\ crashed # "fatal" /\ RunEnded) =>
           SucceededNames \subseteq PackedNames

ScanErrorsOf(name) ==
    CountIn(errCh, { e \in DOMAIN errCh : e.Filename = name /\ e.Err \in ScanErrs })
ForwardedOf(name) ==
    CountIn(scannedHist, { f \in DOMAIN scannedHist : f.Filename = name })
InScan(name) == \E w \in sworkers : w.task.Filename = name
PayloadReleased(name) == name \notin bufsOut /\ TempPath(name) \notin tempFiles

\* C7: for every WorkFile of size above zero the Scanner either forwards the
\* very WorkFile it was given, when the engine reports it clean, or, on a
\* virus or a scan error, forwards nothing, releases the buffer or unlinks
\* the temp file, and posts one ErrorEvent, which carries the virus name
\* when a virus was found.
C7_ForwardOrReject ==
    /\ \A e \in scanLog :
          IF e.res = Clean
          THEN /\ ScanErrorsOf(e.Filename) = 0
               /\ IF InScan(e.Filename)
                  THEN ForwardedOf(e.Filename) = 0
                  ELSE /\ ForwardedOf(e.Filename) = 1
                       /\ \E f \in DOMAIN downloadedHist :
                             /\ f.Filename = e.Filename
                             /\ f.Size > 0
                             /\ f \in DOMAIN scannedHist
          ELSE \E ev \in DOMAIN errCh :
                  /\ ev.Filename = e.Filename
                  /\ ev.Err = IF e.res.virusName # "" THEN "virus found"
                              ELSE "error scanning"
                  /\ ev.Detail = IF e.res.virusName # "" THEN e.res.virusName ELSE <<>>
    /\ \A ev \in DOMAIN errCh :
          ev.Err \in ScanErrs =>
              /\ ScanErrorsOf(ev.Filename) = 1
              /\ ForwardedOf(ev.Filename) = 0
              /\ ~InScan(ev.Filename)
              /\ PayloadReleased(ev.Filename)

\* A spilled file was found infected and its temp file unlinked; a file in
\* memory was found clean and forwarded.
C7_Witness ==
    /\ \E e \in scanLog :
          /\ e.res = Virus
          /\ e.TempFile # NoTemp
          /\ e.TempFile \notin tempFiles
    /\ \E e \in scanLog :
          /\ e.res = Clean
          /\ e.TempFile = NoTemp
          /\ ForwardedOf(e.Filename) = 1

\* The entry lines of metadata.jsonl, and the positions SUBSET selects among
\* n lines: start+1, start+1+stride, ... and none beyond end.
EntryLines == SubSeq(metadataFile, 1, Len(metadataFile) - 1)
DuePositions(n, p) ==
    { i \in 1..n :
        /\ i > p.start
        /\ p.end = -1 \/ i <= p.end
        /\ p.stride <= 1 \/ (i - p.start - 1) % p.stride = 0 }

\* The tasks due under SUBSET, in file order, less the skipped keys.
DueTasks ==
    LET p == ParseSubset(subSetFiles)
        due == DuePositions(Len(EntryLines), p)
        tagged == [i \in 1..Len(EntryLines) |-> [pos |-> i, entry |-> EntryLines[i]]]
        kept == SelectSeq(tagged, LAMBDA x : x.pos \in due /\ x.entry.Key \notin skipFiles)
    IN [i \in 1..Len(kept) |-> [Filename |-> kept[i].entry.Key, Size |-> kept[i].entry.Size]]

\* C8: with SUBSET=start:stride[:end] the tasks the Reader has emitted when
\* it closes toDownload are exactly the lines at positions start+1,
\* start+1+stride, ... not beyond end, less the skipped keys.
C8_SubsetSelectsStride ==
    subSetFiles # <<>> /\ rd.pc = "closed" => emitted = DueTasks

\* Each stage has closed its output only after its input was closed and
\* drained, and the Uploader's done channel is closed last, with every
\* ArchiveFile uploaded and logged.
ClosedInOrder ==
    /\ downloaded.closed => toDownload.closed /\ toDownload.q = <<>>
    /\ scanned.closed => downloaded.closed /\ downloaded.q = <<>>
    /\ archiveReady.closed => scanned.closed /\ scanned.q = <<>>
    /\ uploaderDone =>
          /\ archiveReady.closed /\ archiveReady.q = <<>>
          /\ \A j \in 1..Len(archiveHist) :
                /\ Uploaded(archiveHist[j])
                /\ Range(archiveHist[j].Contents) \subseteq Range(NewLines)

\* A step of the run other than the cancellation of the context.
StepOfTheRun == Next /\ cancelled' = cancelled

\* C9: in a run that is not cancelled and not ended by an upload failure the
\* stages close their outputs in order, and once the Reader has closed
\* toDownload the run goes on until the Uploader's done channel is closed:
\* it never stops before.
C9_DrainsToDone ==
    ~cancelled /\ crashed # "fatal" =>
        /\ ClosedInOrder
        /\ rd.pc = "closed" => uploaderDone \/ ENABLED StepOfTheRun

\* C10: once the context is cancelled no loop of the Downloader, the
\* Scanner, the Archiver or the Uploader takes another task off its input.
C10_NoTakeAfterCancel ==
    [][cancelled =>
          /\ Len(toDownload.q') >= Len(toDownload.q)
          /\ Len(downloaded.q') >= Len(downloaded.q)
          /\ Len(scanned.q') >= Len(scanned.q)
          /\ Len(archiveReady.q') >= Len(archiveReady.q)]_vars

\* ---------------------------------------------------------------- the index phase of main

\* Largest number of objects of the listed bucket.
MaxObjects == 6
\* Objects per page of the listing.
PageLen == 1
\* Length of a long object key (S3 allows 1024 bytes).
LongKey == 1000

\* file.go:122-125: the stats reader looks at the last 2000 bytes.
SeekWindow == 2000
\* metadata.go:143: bufio.NewWriter buffers 4096 bytes.
WriterSize == 4096

\* The number of decimal digits of n, as %d and json.Marshal print it.
RECURSIVE Digits(_)
Digits(n) == IF n < 10 THEN 1 ELSE 1 + Digits(n \div 10)

IsSummary(line) == "total_objects" \in DOMAIN line
\* The beginning of a line, cut by a write that never completed.
IsTorn(line) == "torn" \in DOMAIN line

\* The bytes of one line of metadata.jsonl with its newline:
\* {"key":"K","size":N} (metadata.go:176-178), or
\* {"total_objects":C,"total_size":S} (metadata.go:183).
LineBytes(line) ==
    IF IsTorn(line) THEN line.torn
    ELSE IF IsSummary(line)
    THEN 33 + Digits(line.total_objects) + Digits(line.total_size)
    ELSE 19 + Len(line.Key) + Digits(line.Size)

RECURSIVE BytesOf(_)
BytesOf(file) == IF file = <<>> THEN 0 ELSE LineBytes(Head(file)) + BytesOf(Tail(file))

\* json.Unmarshal of a line into FileStats (file.go:97-100 and :136-138):
\* a JSON object parses whatever its fields, and the fields FileStats does
\* not find stay zero.  A torn line parses only when nothing but its
\* newline is missing.
Parses(line) == IsTorn(line) => line.torn = LineBytes(line.of) - 1
StatsOf(line) ==
    LET l == IF IsTorn(line) THEN line.of ELSE line IN
    IF IsSummary(l)
    THEN [err |-> FALSE, Count |-> l.total_objects, Size |-> l.total_size]
    ELSE [err |-> FALSE, Count |-> 0, Size |-> 0]
NoStats == [err |-> TRUE, Count |-> 0, Size |-> 0]

\* file.go:104-142: ReadLastLineJSONStats.  offset is the file's size, less
\* 2000 when the size is above 2000; ReadAt fills tmp from offset (nothing,
\* for a file of at most 2000 bytes: tmp stays zero bytes); the lines of tmp
\* are tried in order and the first that parses is returned.  The piece of
\* the line that offset falls into is not a JSON text.
ReadLastLineJSONStats(file) ==
    LET size == BytesOf(file)
        offset == IF size > SeekWindow THEN size - SeekWindow ELSE size
        inTmp == { i \in 1..Len(file) :
                      /\ BytesOf(SubSeq(file, 1, i - 1)) >= offset
                      /\ Parses(file[i]) }
    IN IF size = 0 \/ inTmp = {} THEN NoStats
       ELSE StatsOf(file[CHOOSE i \in inTmp : \A j \in inTmp : i <= j])

\* The first n bytes of the lines: whole lines, then a torn one.
RECURSIVE Cut(_, _)
Cut(lines, n) ==
    IF lines = <<>> \/ n = 0 THEN <<>>
    ELSE IF LineBytes(Head(lines)) <= n
    THEN <<Head(lines)>> \o Cut(Tail(lines), n - LineBytes(Head(lines)))
    ELSE << [of |-> Head(lines), torn |-> n] >>

\* metadata.go:143 and :176-178: what has reached the disk when the lines
\* were written to the bufio.Writer and it was never flushed: the writer
\* passes its buffer on, 4096 bytes at a time, when a write does not fit.
FlushedPrefix(lines) ==
    LET t == BytesOf(lines) IN
    Cut(lines, IF t = 0 THEN 0 ELSE WriterSize * ((t - 1) \div WriterSize))

\* The keys of the listed bucket: the i-th is n times its letter.
Letters == <<"a", "b", "c", "d", "e", "f", "g", "h">>
KeyOf(i, n) == [j \in 1..n |-> Letters[i]]
Buckets ==
    UNION { { [i \in 1..n |-> MetaEntry(KeyOf(i, len[i]), i)] :
                len \in [1..n -> {1, LongKey}] } : n \in 0..MaxObjects }

OtherThanMain == <<subSetFiles, skipFiles, rd, emitted, cancelled, s3Ready, scanReady,
                   downVars, memVars, scanVars, ar, sizeCapLimit,
                   UploadedArchivedFiles, dr, calc, archiveCount, archiveOpen,
                   archiveBytesWritten, segFiles, archiveHist, upVars, errVars,
                   toDownload, downloaded, scanned, archiveReady>>

\* part_004:53-63 (main.go:60-70): metadata.jsonl exists; its totals are
\* taken from ReadLastLineJSONStats, whose error ends the process.
MainStats ==
    /\ Running
    /\ mn.pc = "stat"
    /\ mn.onDisk
    /\ LET r == ReadLastLineJSONStats(metadataFile) IN
       IF r.err
       THEN /\ crashed' = "fatal"
            /\ UNCHANGED <<mn, TotalFiles, TotalBytes>>
       ELSE /\ TotalFiles' = r.Count
            /\ TotalBytes' = r.Size
            /\ mn' = [mn EXCEPT !.pc = "run"]
            /\ UNCHANGED crashed
    /\ UNCHANGED <<metadataFile, OtherThanMain>>

\* part_004:64-70 and metadata.go:116-197: metadata.jsonl does not exist;
\* loadMetadata creates it and lists the bucket.  When every page arrives the
\* entry lines and the summary line are written and flushed.  When NextPage
\* fails after `pages` pages, log.Fatalf ends the process at once: the
\* deferred Flush does not run and the file keeps what the writer had
\* passed on.
MainList(fails, pages) ==
    /\ Running
    /\ mn.pc = "stat"
    /\ ~mn.onDisk
    /\ s3Ready
    /\ IF fails
       THEN /\ pages = 0 \/ pages * PageLen < Len(mn.bucket)
            /\ metadataFile' =
                   FlushedPrefix(SubSeq(mn.bucket, 1, pages * PageLen))
            /\ crashed' = "fatal"
            /\ mn' = [mn EXCEPT !.onDisk = TRUE, !.listings = @ + 1]
            /\ UNCHANGED <<TotalFiles, TotalBytes>>
       ELSE /\ pages = 0
            /\ metadataFile' = IndexFile(mn.bucket)
            /\ TotalFiles' = Len(mn.bucket)
            /\ TotalBytes' = SumSizes(mn.bucket)
            /\ mn' = [mn EXCEPT !.pc = "run", !.onDisk = TRUE, !.listings = @ + 1]
            /\ UNCHANGED crashed
    /\ UNCHANGED OtherThanMain

\* The program is started again, with the disk as the earlier run left it.
NewRun ==
    /\ crashed = "fatal" \/ mn.pc = "run"
    /\ crashed' = ""
    /\ mn' = [mn EXCEPT !.pc = "stat", !.found = mn.onDisk, !.listings = 0]
    /\ TotalFiles' = 0
    /\ TotalBytes' = 0
    /\ UNCHANGED <<metadataFile, OtherThanMain>>

\* main at its start: the index of the bucket is on disk, left complete by
\* an earlier run, or there is no metadata.jsonl.
InitIndex ==
    \E bucket \in Buckets, onDisk \in BOOLEAN :
        /\ metadataFile = IF onDisk THEN IndexFile(bucket) ELSE <<>>
        /\ TotalFiles = 0
        /\ TotalBytes = 0
        /\ mn = [pc |-> "stat", found |-> onDisk, onDisk |-> onDisk,
                 bucket |-> bucket, listings |-> 0]
        /\ calc = NoCall
        /\ StagesIdle(<<>>, <<>>, 1)

NextIndex ==
    \/ S3Init
    \/ MainStats
    \/ \E fails \in BOOLEAN, pages \in 0..MaxObjects : MainList(fails, pages)
    \/ NewRun

SpecIndex == InitIndex /\ [][NextIndex]_vars

\* ---------------------------------------------------------------- claims on the index

Complete(file) == file # <<>> /\ IsSummary(file[Len(file)])

\* C11: when metadata.jsonl exists and ends with the summary line, main
\* takes exactly the summary's total_objects and total_size from it, however
\* many and however long the entry lines, and does not list the bucket: it
\* does not end on the file, and once past its index phase the totals are
\* those of the last line and nothing was listed to obtain them.
C11_StatsAreTheSummary ==
    (mn.found /\ Complete(metadataFile)) =>
        /\ crashed # "fatal"
        /\ mn.listings = 0
        /\ mn.pc = "run" =>
              /\ TotalFiles = metadataFile[Len(metadataFile)].total_objects
              /\ TotalBytes = metadataFile[Len(metadataFile)].total_size

\* C12: a listing that fails part-way ends the process, and a later run
\* does not accept the metadata.jsonl it left: main gets past its index
\* phase only with a file that ends with the summary line.
C12_PartialIndexRejected ==
    mn.pc = "run" => Complete(metadataFile)

\* ---------------------------------------------------------------- claims on the segments

\* part_003:135 with the default ARCHIVE_NAME: fmt.Sprintf("archive_%07d.tgz", n),
\* the index in seven decimal digits (for n below 10^7).
ArchiveName(n) ==
    [prefix |-> "archive_", index |-> [k \in 1..7 |-> (n \div 10^(7 - k)) % 10],
     suffix |-> ".tgz"]

\* The tar entries of every segment, and the entry of a name.
PackedEntries == UNION { Range(segFiles[n].entries) : n \in DOMAIN segFiles }
EntryOf(name) == CHOOSE e \in PackedEntries : e.Name = name

\* Two objects whose sizes together exceed the cap, the first not empty:
\* the first segment holds exactly the first, the second begins with the
\* second.
TwoObjectsTwoSegments ==
    LET n1 == ArrivalName(1)
        n2 == ArrivalName(2)
    IN (/\ {n1, n2} \subseteq { e.Name : e \in PackedEntries }
        /\ EntryOf(n1).Size > 0
        /\ EntryOf(n1).Size + EntryOf(n2).Size > sizeCapLimit)
       => /\ segFiles[1].entries = << EntryOf(n1) >>
          /\ Head(segFiles[2].entries) = EntryOf(n2)

\* C13 as stated: the first segment is archive_0000000.tgz and each later
\* one has the index of the one before plus one; of two objects that do not
\* fit together the first is alone in the first segment and the second is in
\* the next.
C13_IndexFromZero ==
    /\ \A i \in 1..Len(archiveHist) :
          ArchiveName(archiveHist[i].Filename) = ArchiveName(i - 1)
    /\ TwoObjectsTwoSegments

\* C13 amended: the first segment is archive_0000001.tgz (the counter is
\* incremented before the name is formatted) and each later one has the
\* index of the one before plus one; the segment files are those of the
\* indexes 1..archiveCount; of two objects that do not fit together the first
\* is alone in the first segment and the second is in the next.
C13_IndexFromOne ==
    /\ DOMAIN segFiles = 1..archiveCount
    /\ \A i \in 1..Len(archiveHist) :
          ArchiveName(archiveHist[i].Filename) = ArchiveName(i)
    /\ TwoObjectsTwoSegments

\* Two segments of one object each have been handed to the Uploader, as
\* a.txt and b.txt of 50 bytes under a cap of 60.
C13_Witness ==
    /\ Len(archiveHist) >= 2
    /\ Len(archiveHist[1].Contents) = 1
    /\ Len(archiveHist[2].Contents) = 1
    /\ ArchiveName(archiveHist[1].Filename).index = <<0, 0, 0, 0, 0, 0, 1>>
    /\ ArchiveName(archiveHist[2].Filename).index = <<0, 0, 0, 0, 0, 0, 2>>
    /\ EntryOf(ArrivalName(1)).Size + EntryOf(ArrivalName(2)).Size > sizeCapLimit
    /\ EntryOf(ArrivalName(1)).Size <= sizeCapLimit
    /\ EntryOf(ArrivalName(2)).Size <= sizeCapLimit

\* ---------------------------------------------------------------- the counters

\* Largest number of DownloadReader.Read calls in flight, largest byte count
\* of one Read, and the byte count after which no further Read is started.
MaxReaders == 1
MaxRead == 1
MaxReadBytes == 1

OtherThanCounters == <<readerVars, envVars, dl, dworkers, downloadedHist,
                       DownloadedFiles, memVars, scanVars, ar, sizeCapLimit,
                       UploadedArchivedFiles, mn, calc, archiveCount, archiveOpen,
                       archiveBytesWritten, segFiles, archiveHist, up, uploaderDone,
                       dstObjects, logBase, UploadedFiles, uploadLog, errVars,
                       toDownload, downloaded, scanned, archiveReady>>

\* common.go:83-85: Read returns n bytes of the wrapped reader, and the
\* statement DownloadedBytes += int64(n) begins: it is not atomic, and reads
\* the counter here.
DownloadReaderLoad(id, n) ==
    /\ Running
    /\ id \notin { r.id : r \in dr }
    /\ UploadedBytes < MaxReadBytes
    /\ dr' = dr \cup { [id |-> id, n |-> n, loaded |-> DownloadedBytes] }
    /\ UNCHANGED <<DownloadedBytes, UploadedBytes, OtherThanCounters>>

\* common.go:85-87: the statement ends, writing the value it read plus n over
\* whatever the counter holds by now; then n is added to UploadedBytes
\* atomically and Read returns.
DownloadReaderStore(r) ==
    /\ Running
    /\ r \in dr
    /\ DownloadedBytes' = r.loaded + r.n
    /\ UploadedBytes' = UploadedBytes + r.n
    /\ dr' = dr \ {r}
    /\ UNCHANGED OtherThanCounters

\* The pipeline over two small objects, never cancelled, with DownloadReaders
\* in use beside the download workers: every step that writes a counter.
InitMetrics ==
    InitWith(<< MetaEntry(KeyA, 1), MetaEntry(KeyB, 1) >>, <<>>, <<>>, 1)

NextMetrics ==
    \/ S3Init
    \/ ClamInit
    \/ ReaderStart
    \/ ReaderEmit
    \/ ErrorLogger
    \/ DownloaderRecv
    \/ DownloaderAdd
    \/ DownloaderReturn
    \/ \E w \in dworkers, o \in InlineOutcomes : DownloadRun(w, o)
    \/ \E w \in dworkers : DownloadSend(w)
    \/ ScannerReady
    \/ ScannerRecv
    \/ ScannerAdd
    \/ ScannerClosed
    \/ ScannerReturn
    \/ \E w \in sworkers, m \in BOOLEAN, r \in EngineResults : ScanRun(w, m, r)
    \/ \E w \in sworkers : ScanSend(w)
    \/ ArchiverRecv
    \/ ArchiverEmitRoll
    \/ ArchiverClosed
    \/ ArchiverEmitFinal
    \/ \E o \in UploadOutcomes : UploaderRecv(o)
    \/ UploaderReturn
    \/ \E id \in 1..MaxReaders, n \in 0..MaxRead : DownloadReaderLoad(id, n)
    \/ \E r \in dr : DownloadReaderStore(r)

SpecMetrics == InitMetrics /\ [][NextMetrics]_vars

\* C14: DownloadedBytes, UploadedBytes, DownloadedFiles, ScannedFiles,
\* UploadedFiles and UploadedArchivedFiles never decrease, whatever the
\* interleaving of the goroutines that update them.
C14_CountersNeverDecrease ==
    [][/\ DownloadedBytes' >= DownloadedBytes
       /\ UploadedBytes' >= UploadedBytes
       /\ DownloadedFiles' >= DownloadedFiles
       /\ ScannedFiles' >= ScannedFiles
       /\ UploadedFiles' >= UploadedFiles
       /\ UploadedArchivedFiles' >= UploadedArchivedFiles]_vars

\* The segments whose first entry has exactly the size of the cap.
FilledByFirst ==
    { n \in DOMAIN segFiles :
        /\ segFiles[n].entries # <<>>
        /\ segFiles[n].entries[1].Size = sizeCapLimit }

\* C15 as stated: an object of exactly sizeCap that is the first packed into
\* a segment is packed there and the segment is closed when the next
\* WorkFile arrives: no other entry ever joins it.
C15_ClosesOnNext ==
    \A n \in FilledByFirst : Len(segFiles[n].entries) = 1

\* C15 amended: an object of exactly sizeCap that is the first packed into a
\* segment is packed there, and the segment is closed when the next WorkFile
\* of a size other than zero arrives; the empty objects that arrive before
\* it join the segment, which still holds sizeCap bytes.
C15_ClosesOnNextNonEmpty ==
    \A n \in FilledByFirst :
        /\ \A j \in 2..Len(segFiles[n].entries) : segFiles[n].entries[j].Size = 0
        /\ SumSizes(segFiles[n].entries) = sizeCapLimit
        /\ (ar.pc = "select" /\ archiveOpen /\ ar.tgzFile = n /\ scanned.q # <<>>
            /\ Head(scanned.q).Size > 0)
           => MustRoll(archiveBytesWritten, Head(scanned.q).Size, sizeCapLimit)

\* A segment filled by its first object has been closed on the arrival of
\* the next one, which is packed into the following segment.
C15_Witness ==
    \E n \in FilledByFirst :
        /\ segFiles[n].state # "open"
        /\ Len(segFiles[n].entries) = 1
        /\ n + 1 \in DOMAIN segFiles
        /\ segFiles[n + 1].entries # <<>>
        /\ segFiles[n + 1].entries[1].Size > 0

\* ---------------------------------------------------------------- claims on empty objects

\* The empty objects the Scanner has taken and those it has passed on.
EmptyForwarded == { f \in DOMAIN scannedHist : f.Size = 0 }

\* The byte count of the segment the Archiver works on is the sum of the
\* sizes of its entries.
UsedIsSumOfSizes ==
    ((archiveOpen \/ JustClosed) /\ ar.tgzFile > 0)
        => archiveBytesWritten = SumSizes(segFiles[ar.tgzFile].entries)

\* C16: a zero-byte object is never given to the scan engine and no scan
\* failure is reported for it: the Scanner passes it on as it is, every
\* WorkFile passed on or rejected is counted once in ScannedFiles, and the
\* entry the Archiver writes for it adds nothing to the byte count of its
\* segment and keeps no payload.
C16_EmptyHeaderOnly ==
    /\ \A e \in scanLog : e.TempFile # NoTemp \/ e.Bytes.len > 0
    /\ \A ev \in DOMAIN errCh : ev.Err \in ScanErrs => ev.Size > 0
    /\ \A f \in EmptyForwarded :
          /\ scannedHist[f] = 1
          /\ f.TempFile = NoTemp
          /\ f.Bytes = NilBytes
    /\ ScannedFiles = BagCardinality(scannedHist)
                        + CountIn(errCh, { ev \in DOMAIN errCh : ev.Err \in ScanErrs })
    /\ UsedIsSumOfSizes

\* An empty object was passed on by the Scanner without a scan and packed
\* beside an object of one byte: the segment counts one byte.
C16_Witness ==
    /\ \E f \in EmptyForwarded :
          /\ \A e \in scanLog : e.Filename # f.Filename
          /\ archiveOpen
          /\ ar.tgzFile > 0
          /\ [Name |-> f.Filename, Size |-> 0] \in Range(segFiles[ar.tgzFile].entries)
          /\ Len(segFiles[ar.tgzFile].entries) = 2
    /\ archiveBytesWritten = 1
    /\ ScannedFiles = 2

\* ---------------------------------------------------------------- claims on the payload

\* A WorkFile held in memory, and one spilled to a temp file.
Inline(f) == ~f.Bytes.isNil /\ f.TempFile = NoTemp
Spilled(f) == f.Bytes.isNil /\ f.TempFile # NoTemp

\* The payload is the one the size asks for: in memory up to the threshold
\* (96 KiB included), a temp file above it.
PayloadBySize(f) == IF f.Size <= 96 * 1024 THEN Inline(f) ELSE Spilled(f)

\* C17 as stated: a WorkFile is inline exactly when its size is at most the
\* in-memory threshold and spilled otherwise, and every WorkFile on the
\* downloaded and on the scanned queue carries exactly one payload.
C17_OnePayload ==
    \A f \in (DOMAIN downloadedHist) \cup (DOMAIN scannedHist) : PayloadBySize(f)

\* C17 amended: every WorkFile the Downloader emits is inline exactly when its
\* size is at most the in-memory threshold and spilled otherwise, with
\* exactly one payload; so is every WorkFile of a size above zero on the
\* scanned queue, while a zero-byte WorkFile on the scanned queue carries
\* neither a buffer nor a temp path.
C17_OnePayloadUnlessEmpty ==
    /\ \A f \in DOMAIN downloadedHist : PayloadBySize(f)
    /\ \A f \in DOMAIN scannedHist :
          IF f.Size = 0 THEN f.Bytes.isNil /\ f.TempFile = NoTemp
          ELSE PayloadBySize(f)

\* An object of exactly 96 KiB was emitted inline, one of a byte more was
\* emitted spilled, and both went on to the scanned queue.
C17_Witness ==
    /\ \E f \in DOMAIN scannedHist : f.Size = 96 * 1024 /\ Inline(f)
    /\ \E f \in DOMAIN scannedHist : f.Size = 96 * 1024 + 1 /\ Spilled(f)

\* ---------------------------------------------------------------- claims on the totals

\* C18: when the Reader has finished, TotalFiles is the number of
\* DownloadTasks it emitted and TotalBytes the sum of their sizes, with or
\* without SUBSET and with or without keys in upload.log.
C18_TotalsAreTheEmitted ==
    rd.pc = "closed" =>
        /\ TotalFiles = Len(emitted)
        /\ TotalBytes = SumSizes(emitted)

\* ---------------------------------------------------------------- claims on the empty run

\* The pipeline under the scheduler: a step that can be taken is taken in
\* the end.  The inputs are no object at all, or a small and a large one.
InitLive ==
    \E entries \in { <<>>, << MetaEntry(KeyA, 1), MetaEntry(KeyB, InMemLimit + 1) >> },
       log \in PipeLogs, subset \in PipeSubsets :
        InitWith(entries, log, subset, 1)

SpecLive == InitLive /\ [][Next]_vars /\ WF_vars(Next)

\* metadata.jsonl holds the summary line alone.
EmptyIndex == Len(metadataFile) = 1 /\ IsSummary(metadataFile[1])

\* Every stage has returned and the Uploader's done channel is closed.
AllReturned ==
    /\ rd.pc = "closed" /\ toDownload.closed
    /\ dl.pc = "returned" /\ downloaded.closed
    /\ sc.pc = "returned" /\ scanned.closed
    /\ ar.pc = "returned" /\ archiveReady.closed
    /\ up.pc = "returned" /\ uploaderDone

\* Nothing was emitted, downloaded, scanned, packed, uploaded or logged.
NothingDone ==
    /\ emitted = <<>>
    /\ toDownload.q = <<>>
    /\ dworkers = {} /\ sworkers = {}
    /\ segFiles = <<>> /\ archiveCount = 0 /\ ~archiveOpen
    /\ archiveHist = <<>> /\ archiveReady.q = <<>>
    /\ dstObjects = {}
    /\ uploadLog = InitialLog
    /\ Running

\* C19: with a metadata file that holds only the summary line the Reader
\* closes toDownload without emitting a task, the Archiver creates no segment
\* and emits no ArchiveFile, nothing is appended to upload.log, and every
\* stage comes to its end with the Uploader's done channel closed.
C19_EmptyRunShutsDown ==
    /\ [](EmptyIndex => NothingDone)
    /\ EmptyIndex ~> AllReturned

\* The run over the empty index has ended.
C19_Witness == EmptyIndex /\ AllReturned /\ NothingDone

\* ---------------------------------------------------------------- claims on the error bus

\* The failure a download worker can meet for its task.
FailureOf(w) == IF w.task.Size <= InMemLimit THEN "error" ELSE "partError"

\* C20: posting an ErrorEvent never blocks the worker that posts it, however
\* many events are pending and however slow the consumer: a download worker
\* whose download fails, and a scan worker whose scan finds a virus, can
\* always post the event and end.
C20_PostNeverBlocks ==
    /\ \A w \in dworkers :
          (Running /\ s3Ready /\ w.st = "run") => ENABLED DownloadRun(w, FailureOf(w))
    /\ \A w \in sworkers :
          (Running /\ w.st = "run" /\ w.task.Size > 0) => ENABLED ScanRun(w, TRUE, Virus)

\* ---------------------------------------------------------------- byte sizes as text

\* Largest multiple of a unit among the sizes tried.
MaxMultiple == 3

\* part_002:216: KB = 1 << 10.  The units are the powers KB^0 .. KB^4.
KB == 1024

\* A 64-bit size is kept as seven base-KB digits, the lowest first, so that
\* sizes up to the TiB range and the wrap at 2^64 = 16 * KB^6 are exact.
Big(n) == << n % KB, (n \div KB) % KB, (n \div (KB * KB)) % KB, n \div (KB * KB * KB),
             0, 0, 0 >>
Two64 == << 0, 0, 0, 0, 0, 0, 16 >>

\* a * KB^k.
TimesUnit(a, k) == [i \in 1..Len(a) |-> IF i > k THEN a[i - k] ELSE 0]

\* The value of the digits from the i-th on, as one number.
RECURSIVE HighPart(_, _)
HighPart(a, i) == IF i > Len(a) THEN 0 ELSE a[i] + KB * HighPart(a, i + 1)

RECURSIVE CarryFrom(_, _, _)
CarryFrom(a, b, i) ==
    IF i = 0 THEN 0 ELSE (a[i] + b[i] + CarryFrom(a, b, i - 1)) \div KB
BigAdd(a, b) == [i \in 1..Len(a) |-> (a[i] + b[i] + CarryFrom(a, b, i - 1)) % KB]

RECURSIVE BorrowFrom(_, _, _)
BorrowFrom(a, b, i) ==
    IF i = 0 THEN 0
    ELSE IF a[i] - b[i] - BorrowFrom(a, b, i - 1) < 0 THEN 1 ELSE 0
\* a - b for a >= b.
BigSub(a, b) ==
    [i \in 1..Len(a) |-> (a[i] - b[i] - BorrowFrom(a, b, i - 1) + 2 * KB) % KB]

BigLeq(a, b) == BorrowFrom(b, a, Len(a)) = 0

RECURSIVE CarryTimes(_, _, _)
CarryTimes(a, c, i) ==
    IF i = 0 THEN 0 ELSE (a[i] * c + CarryTimes(a, c, i - 1)) \div KB
\* a * c for a small c; the top digit keeps what is above it.
BigTimes(a, c) ==
    [i \in 1..Len(a) |->
        IF i = Len(a) THEN a[i] * c + CarryTimes(a, c, i - 1)
        ELSE (a[i] * c + CarryTimes(a, c, i - 1)) % KB]

\* int64: the value modulo 2^64, read as a signed number.
Wrap64(a) ==
    LET p == [a EXCEPT ![7] = @ % 16] IN
    IF p[7] >= 8 THEN [neg |-> TRUE, mag |-> BigSub(Two64, p)]
    ELSE [neg |-> FALSE, mag |-> p]

DigitChars == <<"0", "1", "2", "3", "4", "5", "6", "7", "8", "9">>

\* %d of a non-negative integer.
RECURSIVE DecimalText(_)
DecimalText(n) ==
    IF n < 10 THEN << DigitChars[n + 1] >>
    ELSE DecimalText(n \div 10) \o << DigitChars[(n % 10) + 1] >>

\* %.2f of b / KB^k for b >= 0: below 2^53 the quotient is exact in a float64,
\* and it is rounded to the nearest hundredth, a tie to the even one.
Fixed2(b, k) ==
    LET c == BigTimes(b, 100)
        q == HighPart(c, k + 1)
        top == IF k = 0 THEN 0 ELSE c[k]
        low == IF k = 0 THEN FALSE ELSE \E i \in 1..(k - 1) : c[i] # 0
        h == IF top > KB \div 2 \/ (top = KB \div 2 /\ low) THEN q + 1
             ELSE IF k > 0 /\ top = KB \div 2 THEN q + (q % 2)
             ELSE q
    IN DecimalText(h \div 100) \o <<".">>
         \o << DigitChars[((h \div 10) % 10) + 1], DigitChars[(h % 10) + 1] >>

\* The largest k in 0..4 with b >= KB^k.
UnitOf(b) ==
    IF \E i \in 5..7 : b[i] # 0 THEN 4
    ELSE IF b[4] # 0 THEN 3
    ELSE IF b[3] # 0 THEN 2
    ELSE IF b[2] # 0 THEN 1
    ELSE 0

\* part_002:213-234: humanizeBytes of a non-negative size.
humanizeBytes(bytes) ==
    CASE UnitOf(bytes) = 4 -> Fixed2(bytes, 4) \o <<" ", "T", "i", "B">>
      [] UnitOf(bytes) = 3 -> Fixed2(bytes, 3) \o <<" ", "G", "i", "B">>
      [] UnitOf(bytes) = 2 -> Fixed2(bytes, 2) \o <<" ", "M", "i", "B">>
      [] UnitOf(bytes) = 1 -> Fixed2(bytes, 1) \o <<" ", "K", "i", "B">>
      [] OTHER -> DecimalText(bytes[1]) \o <<" ", "B">>

\* The value of a decimal digit, or -1.
DigitValue(c) ==
    IF \E d \in 1..10 : DigitChars[d] = c
    THEN (CHOOSE d \in 1..10 : DigitChars[d] = c) - 1
    ELSE -1

\* The longest run of decimal digits at the head of s, and the value of a run.
RECURSIVE DigitRun(_)
DigitRun(s) ==
    IF s = <<>> \/ DigitValue(Head(s)) < 0 THEN <<>>
    ELSE << Head(s) >> \o DigitRun(Tail(s))
RECURSIVE DigitsValue(_)
DigitsValue(d) ==
    IF d = <<>> THEN 0
    ELSE 10 * DigitsValue(SubSeq(d, 1, Len(d) - 1)) + DigitValue(d[Len(d)])

\* The longest run of characters other than spaces at the head of s.
RECURSIVE Token(_)
Token(s) ==
    IF s = <<>> \/ IsSpace(Head(s)) THEN <<>>
    ELSE << Head(s) >> \o Token(Tail(s))

\* common.go:52: fmt.Sscanf(s, "%d%s", &size, &unit).  Each verb first drops
\* the spaces before it; %d takes a sign and decimal digits, %s the characters
\* up to the next space.  n counts the verbs that were filled; err is set
\* when a verb finds nothing to take.  What follows the token is left unread.
Sscanf(s) ==
    LET s1 == TrimLeft(s)
        signed == s1 # <<>> /\ Head(s1) \in {"+", "-"}
        s2 == IF signed THEN Tail(s1) ELSE s1
        ds == DigitRun(s2)
        tok == Token(TrimLeft(SubSeq(s2, Len(ds) + 1, Len(s2))))
    IN IF ds = <<>>
       THEN [n |-> 0, err |-> TRUE, neg |-> FALSE, size |-> 0, unit |-> <<>>]
       ELSE [n |-> IF tok = <<>> THEN 1 ELSE 2, err |-> tok = <<>>,
             neg |-> signed /\ Head(s1) = "-", size |-> DigitsValue(ds), unit |-> tok]

\* common.go:57-68: the suffixes of the units KB^0 .. KB^4.
UnitSuffixes ==
    << { <<>>, <<"B">>, <<"b">> },
       { <<"K">>, <<"K", "B">>, <<"k">>, <<"k", "b">> },
       { <<"M">>, <<"M", "B">>, <<"m">>, <<"m", "b">> },
       { <<"G">>, <<"G", "B">>, <<"g">>, <<"g", "b">> },
       { <<"T">>, <<"T", "B">>, <<"t">>, <<"t", "b">> } >>

\* common.go:49-70: parseByteSize.
parseByteSize(s) ==
    LET r == Sscanf(s) IN
    IF r.n < 1 \/ r.err THEN [err |-> TRUE, val |-> Wrap64(Big(0))]
    ELSE IF \E j \in 1..5 : r.unit \in UnitSuffixes[j]
    THEN LET j == CHOOSE j \in 1..5 : r.unit \in UnitSuffixes[j]
             p == TimesUnit(Big(r.size), j - 1)
             v == Wrap64(p)
         IN [err |-> FALSE,
             val |-> IF r.neg /\ p # Big(0)
                     THEN Wrap64(BigSub(Two64, [p EXCEPT ![7] = @ % 16]))
                     ELSE v]
    ELSE [err |-> TRUE, val |-> Wrap64(Big(0))]

\* The calls tried: a size at a unit boundary is written by humanizeBytes and
\* read back, or an integer with a unit suffix is read.  2^23 T is 2^63.
Multiples == 0..MaxMultiple
BoundarySizes == { TimesUnit(Big(m), k) : m \in Multiples, k \in 0..4 }
SuffixedTexts ==
    { [n |-> m, k |-> k, suffix |-> u] :
        m \in Multiples \cup {2^23}, k \in 0..4, u \in UNION Range(UnitSuffixes) }

NoResult == [err |-> FALSE, val |-> Wrap64(Big(0))]

InitBytes ==
    /\ AtRest
    /\ \/ \E x \in BoundarySizes :
             calc = [pc |-> "humanize", kind |-> "roundtrip", x |-> x,
                     text |-> <<>>, out |-> NoResult]
       \/ \E t \in SuffixedTexts :
             /\ t.suffix \in UnitSuffixes[t.k + 1]
             /\ calc = [pc |-> "parse", kind |-> "suffixed",
                        x |-> TimesUnit(Big(t.n), t.k),
                        text |-> DecimalText(t.n) \o t.suffix, out |-> NoResult]

OtherThanCalc == <<readerVars, envVars, downVars, memVars, scanVars, ar, sizeCapLimit,
                   UploadedArchivedFiles, mn, dr, archiveCount, archiveOpen,
                   archiveBytesWritten, segFiles, archiveHist, upVars, errVars,
                   toDownload, downloaded, scanned, archiveReady>>

Humanize ==
    /\ calc.pc = "humanize"
    /\ calc' = [calc EXCEPT !.pc = "parse", !.text = humanizeBytes(calc.x)]
    /\ UNCHANGED OtherThanCalc

Parse ==
    /\ calc.pc = "parse"
    /\ calc' = [calc EXCEPT !.pc = "done", !.out = parseByteSize(calc.text)]
    /\ UNCHANGED OtherThanCalc

NextBytes == Humanize \/ Parse

SpecBytes == InitBytes /\ [][NextBytes]_vars

\* C21: for every non-negative x at a unit boundary parseByteSize reads what
\* humanizeBytes wrote of x, without error, as a value within one unit of x;
\* and parseByteSize of an integer followed by a unit suffix is exactly the
\* integer times the unit.
C21_RoundTrip ==
    calc.pc = "done" =>
        /\ ~calc.out.err
        /\ ~calc.out.val.neg
        /\ IF calc.kind = "roundtrip"
           THEN LET unit == TimesUnit(Big(1), UnitOf(calc.x)) IN
                /\ BigLeq(calc.out.val.mag, BigAdd(calc.x, unit))
                /\ BigLeq(calc.x, BigAdd(calc.out.val.mag, unit))
           ELSE calc.out.val.mag = calc.x

\* ---------------------------------------------------------------- ranged GETs

\* Largest object size among the small ones split, and the largest part count.
MaxRangeSize == 10
MaxPartCount == 9

\* As PartRange, but the last part ends like the others.
PartRangeNoTail(size, partCount, i) ==
    LET partSize == size \div partCount IN
    [start |-> i * partSize, end |-> i * partSize + partSize - 1]

\* s3.go:745 and :751-756: the byte range of part i, counted from 0.
PartRange(size, partCount, i) ==
    LET partSize == size \div partCount
        start == i * partSize
    IN [start |-> start,
        end |-> IF i = partCount - 1 THEN size - 1 ELSE start + partSize - 1]

\* The calls tried: every small size with every part count up to it, and the
\* calls of the Downloader, which picks the part count from the size.
RangeCalls ==
    { [size |-> s, partCount |-> p, byDownloader |-> FALSE] :
        s \in 1..MaxRangeSize, p \in 1..MaxPartCount }
    \cup
    { [size |-> s, partCount |-> Parts([Size |-> s]), byDownloader |-> TRUE] :
        s \in { InMemLimit + 1, 8 * 1024 * 1024, 8 * 1024 * 1024 + 1 }
              \cup { 8 * 1024 * 1024 + d : d \in 1..MaxRangeSize } }

InitRanges ==
    /\ AtRest
    /\ \E c \in RangeCalls :
          /\ c.size >= c.partCount
          /\ calc = [pc |-> "loop", size |-> c.size, partCount |-> c.partCount,
                     byDownloader |-> c.byDownloader, i |-> 0, ranges |-> <<>>]

\* s3.go:750-802: one turn of the loop starts the goroutine of part i, whose
\* GET carries the header "bytes=start-end".
RangeLoop ==
    /\ calc.pc = "loop"
    /\ calc.i < calc.partCount
    /\ calc' = [calc EXCEPT !.i = @ + 1,
                  !.ranges = Append(@, PartRange(calc.size, calc.partCount, calc.i))]
    /\ UNCHANGED OtherThanCalc

\* s3.go:804: wg.Wait() after the last turn.
RangeWait ==
    /\ calc.pc = "loop"
    /\ calc.i = calc.partCount
    /\ calc' = [calc EXCEPT !.pc = "waited"]
    /\ UNCHANGED OtherThanCalc

NextRanges == RangeLoop \/ RangeWait

SpecRanges == InitRanges /\ [][NextRanges]_vars

\* The bytes of a range.
BytesOfRange(r) == r.start .. r.end

\* C22: for every size >= partCount >= 1 the partCount ranged GETs are
\* contiguous, pairwise disjoint and cover exactly the bytes 0..size-1: part i
\* starts at i * (size / partCount), every part but the last is size /
\* partCount long and the last ends at size - 1; and the Downloader asks for
\* 8 parts exactly when the size is above 8 MiB, for 1 otherwise.
C22_PartsCoverObject ==
    calc.pc = "waited" =>
        LET n == calc.partCount
            rs == calc.ranges
        IN
        /\ Len(rs) = n
        /\ rs[1].start = 0
        /\ rs[n].end = calc.size - 1
        /\ \A i \in 1..n :
              /\ rs[i].start = (i - 1) * (calc.size \div n)
              /\ rs[i].start <= rs[i].end
              /\ i < n => /\ rs[i].end - rs[i].start + 1 = calc.size \div n
                          /\ rs[i + 1].start = rs[i].end + 1
        /\ calc.size <= MaxRangeSize =>
              /\ UNION { BytesOfRange(rs[i]) : i \in 1..n } = 0 .. (calc.size - 1)
              /\ \A i, j \in 1..n :
                    i # j => BytesOfRange(rs[i]) \cap BytesOfRange(rs[j]) = {}
        /\ calc.byDownloader =>
              n = IF calc.size > 8 * 1024 * 1024 THEN 8 ELSE 1

\* An object of 8 MiB + 1 has been split in 8 parts, the last one longer.
C22_Witness ==
    /\ calc.pc = "waited"
    /\ calc.byDownloader
    /\ calc.partCount = 8
    /\ calc.size % 8 # 0
    /\ calc.ranges[8].end - calc.ranges[8].start > calc.ranges[1].end

\* ---------------------------------------------------------------- one spilled download

\* The objects spilled: one fetched in a single part, one in eight.
SpillTasks ==
    { [Filename |-> KeyA, Size |-> InMemLimit + 1],
      [Filename |-> KeyB, Size |-> 8 * 1024 * 1024 + 1] }

InitParts ==
    /\ AtRest
    /\ \E task \in SpillTasks :
          calc = [pc |-> "create", task |-> task, partCount |-> Parts(task), i |-> 0,
                  part |-> [p \in 0..(Parts(task) - 1) |-> "new"],
                  proceed |-> TRUE, errs |-> 0, first |-> "",
                  ret |-> [err |-> FALSE, path |-> NoTemp]]

OtherThanParts == <<readerVars, envVars, scanVars, ar, sizeCapLimit,
                    UploadedArchivedFiles, mn, dr, archiveCount, archiveOpen,
                    archiveBytesWritten, segFiles, archiveHist, upVars, toDownload,
                    scanned, archiveReady, dl, dworkers, bufsOut>>

\* s3.go:725-742: the temp file is created and truncated to the size; when
\* the truncation fails it is removed again.
PartsCreate(outcome) ==
    /\ s3Ready
    /\ calc.pc = "create"
    /\ outcome \in {"ok", "createError", "truncateError"}
    /\ IF outcome = "ok"
       THEN /\ calc' = [calc EXCEPT !.pc = "loop"]
            /\ tempFiles' = tempFiles \cup {TempPath(calc.task.Filename)}
       ELSE /\ calc' = [calc EXCEPT !.pc = "returned",
                          !.ret = [err |-> TRUE, path |-> NoTemp]]
            /\ UNCHANGED tempFiles
    /\ UNCHANGED <<OtherThanParts, errVars, downloaded, downloadedHist,
                   DownloadedFiles, DownloadedBytes>>

\* s3.go:750-759: one turn of the loop starts the goroutine of part i.
PartsSpawn ==
    /\ calc.pc = "loop"
    /\ calc.i < calc.partCount
    /\ calc' = [calc EXCEPT !.i = @ + 1, !.part[calc.i] = "run"]
    /\ UNCHANGED <<OtherThanParts, tempFiles, errVars, downloaded, downloadedHist,
                   DownloadedFiles, DownloadedBytes>>

PartOutcomes == {"ok", "getError", "readError", "writeError", "stopped"}

\* s3.go:759-801: the goroutine of part p, to its end.  It reads its range to
\* EOF, or fails in the GET, a Read or a WriteAt, clears `proceed` and sends
\* its error on the call's channel (which has room for one error per part),
\* or leaves its loop because it found `proceed` cleared by another part.
PartRun(p, outcome) ==
    /\ calc.pc = "loop"
    /\ p \in DOMAIN calc.part
    /\ calc.part[p] = "run"
    /\ outcome \in PartOutcomes
    /\ outcome = "stopped" => ~calc.proceed
    /\ LET failed == outcome \in {"getError", "readError", "writeError"}
           r == PartRange(calc.task.Size, calc.partCount, p)
       IN /\ calc' = [calc EXCEPT
                         !.part[p] = IF failed THEN "failed" ELSE outcome,
                         !.proceed = IF failed THEN FALSE ELSE @,
                         !.errs = IF failed THEN @ + 1 ELSE @,
                         !.first = IF failed /\ @ = "" THEN outcome ELSE @]
          /\ DownloadedBytes' = DownloadedBytes
                                  + (IF outcome = "ok" THEN r.end - r.start + 1 ELSE 0)
    /\ UNCHANGED <<OtherThanParts, tempFiles, errVars, downloaded, downloadedHist,
                   DownloadedFiles>>

\* As InPartsReturn, but the temp file of a failed download is left behind.
InPartsReturnKeepsFile(errs, path) ==
    IF errs = 0 THEN [err |-> FALSE, path |-> path, unlink |-> FALSE]
    ELSE [err |-> TRUE, path |-> NoTemp, unlink |-> FALSE]

\* s3.go:805-815: with the first error on the channel the temp file is
\* removed and that error returned; without one the file's name is returned.
InPartsReturn(errs, path) ==
    IF errs = 0 THEN [err |-> FALSE, path |-> path, unlink |-> FALSE]
    ELSE [err |-> TRUE, path |-> NoTemp, unlink |-> TRUE]

\* s3.go:804-815: wg.Wait() returns once every part goroutine is done.
PartsWait ==
    /\ calc.pc = "loop"
    /\ calc.i = calc.partCount
    /\ \A p \in DOMAIN calc.part : calc.part[p] \notin {"new", "run"}
    /\ LET path == TempPath(calc.task.Filename)
           r == InPartsReturn(calc.errs, path)
       IN /\ calc' = [calc EXCEPT !.pc = "returned",
                         !.ret = [err |-> r.err, path |-> r.path]]
          /\ tempFiles' = IF r.unlink THEN tempFiles \ {path} ELSE tempFiles
    /\ UNCHANGED <<OtherThanParts, errVars, downloaded, downloadedHist,
                   DownloadedFiles, DownloadedBytes>>

\* download.go:96-107: the worker posts one ErrorEvent for a failed call and
\* ends, or sends the DownloadedFile and counts it.
PartsDeliver ==
    /\ calc.pc = "returned"
    /\ calc' = [calc EXCEPT !.pc = "done"]
    /\ IF calc.ret.err
       THEN /\ ErrSend
            /\ errCh' = Post(ErrorEvent(calc.task,
                             "Error downloading object to temporary file", <<>>))
            /\ UNCHANGED <<downloaded, downloadedHist, DownloadedFiles>>
       ELSE LET file == [Filename |-> calc.task.Filename, Size |-> calc.task.Size,
                         TempFile |-> calc.ret.path, Bytes |-> NilBytes]
            IN /\ Len(downloaded.q) < CapDownloaded
               /\ downloaded' = [downloaded EXCEPT !.q = Append(@, file)]
               /\ downloadedHist' = downloadedHist (+) SetToBag({file})
               /\ DownloadedFiles' = DownloadedFiles + 1
               /\ UNCHANGED errVars
    /\ UNCHANGED <<OtherThanParts, tempFiles, DownloadedBytes>>

NextParts ==
    \/ S3Init
    \/ \E outcome \in {"ok", "createError", "truncateError"} : PartsCreate(outcome)
    \/ PartsSpawn
    \/ \E p \in 0..7, outcome \in PartOutcomes : PartRun(p, outcome)
    \/ PartsWait
    \/ PartsDeliver

SpecParts == InitParts /\ [][NextParts]_vars

\* A part of the call has failed.
PartFailed == calc.errs > 0
\* A part goroutine of the call has not finished.
PartPending == \E p \in DOMAIN calc.part : calc.part[p] \in {"new", "run"}

\* C23: when one or more parts fail, downloadObjectInParts waits for all the
\* part goroutines, then unlinks the temp file and returns one error, and the
\* Downloader posts exactly one ErrorEvent and emits no WorkFile.
C23_FailedPartsOneError ==
    PartFailed =>
        /\ PartPending =>
              /\ calc.pc = "loop"
              /\ TempPath(calc.task.Filename) \in tempFiles
        /\ calc.pc \in {"returned", "done"} =>
              /\ calc.ret = [err |-> TRUE, path |-> NoTemp]
              /\ tempFiles = {}
        /\ BagCardinality(errCh) = IF calc.pc = "done" THEN 1 ELSE 0
        /\ downloaded.q = <<>>
        /\ downloadedHist = EmptyBag
        /\ DownloadedFiles = 0

\* Of eight parts several failed while others ended well, and the worker is
\* done with the call.
C23_Witness ==
    /\ calc.pc = "done"
    /\ calc.partCount = 8
    /\ calc.errs >= 2
    /\ \E p \in DOMAIN calc.part : calc.part[p] = "ok"
    /\ \E p \in DOMAIN calc.part : calc.part[p] = "stopped"

\* ---------------------------------------------------------------- one multipart upload

\* s3.go:864-867 and :879-886: the section of part i, counted from 0, of a
\* file of `size` bytes: partSize is size/partCount rounded up, and the end
\* is cut at the size.
UploadRange(size, partCount, i) ==
    LET partSize == (size \div partCount) + (IF size % partCount # 0 THEN 1 ELSE 0)
        start == i * partSize
        end == IF start + partSize > size THEN size ELSE start + partSize
    IN [start |-> start, len |-> end - start]

\* 1<<63 - 1.
MaxInt64 == << 1023, 1023, 1023, 1023, 1023, 1023, 7 >>

\* common.go:94: off <= maxint64 - n in int64 arithmetic, for off >= 0: the
\* difference wraps below zero when n is negative.
SectionFits(off, n) ==
    IF n >= 0 THEN BigLeq(Big(off), BigSub(MaxInt64, Big(n)))
    ELSE LET d == Wrap64(BigAdd(MaxInt64, Big(0 - n))) IN
         ~d.neg /\ BigLeq(Big(off), d.mag)

\* common.go:91-101: NewSectionReader(r, off, n).
NewSectionReader(off, n) ==
    [base |-> off, off |-> off,
     limit |-> IF SectionFits(off, n) THEN Big(n + off) ELSE MaxInt64, n |-> n]

\* common.go:114-125: the bytes the Reads of a section return, to EOF, from a
\* file of `size` bytes.
SectionRead(s, size) ==
    LET stop == IF BigLeq(Big(size), s.limit) THEN size ELSE HighPart(s.limit, 1) IN
    IF stop > s.off THEN stop - s.off ELSE 0

\* s3.go:563: maxPartSize of the upload that sends its parts one by one.
maxPartSize == 50 * 1024 * 1024

\* The two uploadFileInParts of s3.go: the one of line 533 sends parts of
\* maxPartSize one after the other, the one of line 848 sends partCount parts
\* at once.
UploadVariants == {"serial", "parallel"}

\* The segments uploaded: a small one, and one above maxPartSize.
UploadSegments ==
    { << [Name |-> KeyA, Size |-> 1], [Name |-> KeyB, Size |-> 1] >>,
      << [Name |-> KeyA, Size |-> maxPartSize] >> }

InitUpload ==
    \E entries \in UploadSegments :
        LET file == [Filename |-> 1,
                     Contents |-> [k \in 1..Len(entries) |-> entries[k].Name]]
        IN
        /\ metadataFile = IndexFile(<<>>)
        /\ uploadLog = <<>>
        /\ logBase = 0
        /\ subSetFiles = <<>>
        /\ skipFiles = {}
        /\ TotalFiles = 0
        /\ TotalBytes = 0
        /\ rd = [ReaderInit EXCEPT !.pc = "closed"]
        /\ toDownload = [q |-> <<>>, closed |-> TRUE]
        /\ emitted = <<>>
        /\ cancelled = FALSE
        /\ crashed = ""
        /\ s3Ready = FALSE
        /\ scanReady = TRUE
        /\ errCh = EmptyBag
        /\ errPending = 0
        /\ DownloadedBytes = 0
        /\ UploadedBytes = 0
        /\ UploadedArchivedFiles = 0
        /\ dr = {}
        /\ calc = NoCall
        /\ mn = Started
        /\ dl = [pc |-> "returned", task |-> <<>>, added |-> 0]
        /\ dworkers = {}
        /\ downloaded = [q |-> <<>>, closed |-> TRUE]
        /\ downloadedHist = EmptyBag
        /\ bufsOut = {}
        /\ tempFiles = {}
        /\ DownloadedFiles = 0
        /\ sc = [pc |-> "returned", task |-> <<>>]
        /\ sworkers = {}
        /\ scanLog = {}
        /\ scanned = [q |-> <<>>, closed |-> TRUE]
        /\ scannedHist = EmptyBag
        /\ ScannedFiles = 0
        /\ ar = [pc |-> "returned", task |-> <<>>, tgzFile |-> 1,
                 contents |-> file.Contents]
        /\ sizeCapLimit = maxPartSize
        /\ archiveCount = 1
        /\ archiveOpen = FALSE
        /\ archiveBytesWritten = SumSizes(entries)
        /\ segFiles = << [entries |-> entries, state |-> "closed"] >>
        /\ archiveReady = [q |-> << file >>, closed |-> TRUE]
        /\ archiveHist = << file >>
        /\ up = [pc |-> "select"]
        /\ uploaderDone = FALSE
        /\ dstObjects = {}
        /\ UploadedFiles = 0

OtherThanUpload == <<readerVars, cancelled, s3Ready, scanReady, downVars, memVars,
                     scanVars, ar, sizeCapLimit, UploadedArchivedFiles, mn, dr,
                     archiveCount, archiveOpen, archiveBytesWritten, archiveHist,
                     logBase, errVars, toDownload, downloaded, scanned, uploaderDone>>

\* uploader.go:26-35: the select takes an ArchiveFile and calls
\* uploadFileInParts(ctx, dstBucket, task.Filename, task.Filename, 8).
UploadTake(variant) ==
    /\ Running
    /\ up.pc = "select"
    /\ archiveReady.q # <<>>
    /\ LET task == Head(archiveReady.q) IN
       /\ archiveReady' = [archiveReady EXCEPT !.q = Tail(@)]
       /\ up' = [up EXCEPT !.pc = "upload"]
       /\ calc' = [pc |-> "open", variant |-> variant, task |-> task,
                   size |-> ArchiveBytes(segFiles[task.Filename].entries),
                   partCount |-> 8, i |-> 0, curr |-> 0,
                   part |-> [p \in 0..7 |-> "new"], errs |-> 0,
                   aborts |-> 0, completes |-> 0, completeFailed |-> FALSE,
                   logged |-> 0, err |-> FALSE]
    /\ UNCHANGED <<OtherThanUpload, crashed, UploadedBytes, dstObjects, uploadLog,
                   segFiles, UploadedFiles>>

\* s3.go:849-876 (and :534-557): the file is opened and measured and the
\* multipart upload is created; each of these can fail.
UploadOpen(outcome) ==
    /\ Running
    /\ s3Ready
    /\ up.pc = "upload"
    /\ calc.pc = "open"
    /\ outcome \in {"ok", "fileError", "createError"}
    /\ calc' = IF outcome = "ok" THEN [calc EXCEPT !.pc = calc.variant]
               ELSE [calc EXCEPT !.pc = "returned", !.err = TRUE]
    /\ UNCHANGED <<OtherThanUpload, crashed, up, archiveReady, UploadedBytes,
                   dstObjects, uploadLog, segFiles, UploadedFiles>>

\* s3.go:885-887: one turn of the loop starts the goroutine of part i.
UploadSpawn ==
    /\ Running
    /\ calc.pc = "parallel"
    /\ calc.i < calc.partCount
    /\ calc' = [calc EXCEPT !.i = @ + 1, !.part[calc.i] = "run"]
    /\ UNCHANGED <<OtherThanUpload, crashed, up, archiveReady, UploadedBytes,
                   dstObjects, uploadLog, segFiles, UploadedFiles>>

\* s3.go:897-912: the goroutine of part p: UploadPart reads the section and
\* answers; a failure is sent on the call's error channel.
UploadPartRun(p, ok) ==
    /\ Running
    /\ calc.pc = "parallel"
    /\ p \in DOMAIN calc.part
    /\ calc.part[p] = "run"
    /\ LET r == UploadRange(calc.size, calc.partCount, p) IN
       /\ calc' = [calc EXCEPT !.part[p] = IF ok THEN "ok" ELSE "failed",
                               !.errs = IF ok THEN @ ELSE @ + 1]
       /\ UploadedBytes' = UploadedBytes
             + (IF ok THEN SectionRead(NewSectionReader(r.start, r.len), calc.size)
                ELSE 0)
    /\ UNCHANGED <<OtherThanUpload, crashed, up, archiveReady, dstObjects, uploadLog,
                   segFiles, UploadedFiles>>

\* As AfterParts, but the upload is completed whatever the parts answered.
AfterPartsCompletes(errs) == [abort |-> FALSE, complete |-> TRUE]

\* s3.go:916-928 (and :581-591): with a failed part the upload is aborted and
\* the error returned; without one it goes on to complete the upload.
AfterParts(errs) == [abort |-> errs > 0, complete |-> errs = 0]

\* s3.go:915-928: wg.Wait() returns once every part goroutine is done.
UploadWait ==
    /\ Running
    /\ calc.pc = "parallel"
    /\ calc.i = calc.partCount
    /\ \A p \in DOMAIN calc.part : calc.part[p] \in {"ok", "failed"}
    /\ LET a == AfterParts(calc.errs) IN
       calc' = [calc EXCEPT !.pc = IF a.complete THEN "complete" ELSE "returned",
                            !.aborts = IF a.abort THEN @ + 1 ELSE @,
                            !.err = ~a.complete]
    /\ UNCHANGED <<OtherThanUpload, crashed, up, archiveReady, UploadedBytes,
                   dstObjects, uploadLog, segFiles, UploadedFiles>>

\* s3.go:564-599: one turn of the loop of the serial upload sends the next
\* part of at most maxPartSize; when UploadPart fails the upload is aborted
\* and an error returned (that of the abort, if it fails too).
UploadSerialPart(ok) ==
    /\ Running
    /\ calc.pc = "serial"
    /\ LET remaining == calc.size - calc.curr
           partLength == IF remaining < maxPartSize THEN remaining ELSE maxPartSize
           a == AfterParts(IF ok THEN 0 ELSE 1)
       IN
       /\ remaining # 0
       /\ calc' = [calc EXCEPT
                     !.pc = IF ~a.complete THEN "returned"
                            ELSE IF remaining = partLength THEN "complete" ELSE @,
                     !.curr = IF ok THEN @ + partLength ELSE @,
                     !.i = @ + 1,
                     !.errs = IF ok THEN @ ELSE @ + 1,
                     !.aborts = IF a.abort THEN @ + 1 ELSE @,
                     !.err = ~a.complete]
       /\ UploadedBytes' = UploadedBytes
             + (IF ok THEN SectionRead(NewSectionReader(calc.curr, partLength), calc.size)
                ELSE 0)
    /\ UNCHANGED <<OtherThanUpload, crashed, up, archiveReady, dstObjects, uploadLog,
                   segFiles, UploadedFiles>>

\* As CompleteError, for an upload that reports every failed completion.
CompleteErrorAlways(variant, ok) == ~ok

\* s3.go:930-942: the parallel upload returns the error of
\* CompleteMultipartUpload.  s3.go:610-615: the serial upload tests err, which
\* is nil there, in place of compErr, and returns nil.
CompleteError(variant, ok) == IF variant = "parallel" THEN ~ok ELSE FALSE

\* s3.go:930-942 (and :602-615): CompleteMultipartUpload.
UploadComplete(ok) ==
    /\ Running
    /\ calc.pc = "complete"
    /\ calc' = [calc EXCEPT !.pc = "returned", !.completes = @ + 1,
                            !.completeFailed = ~ok,
                            !.err = CompleteError(calc.variant, ok)]
    /\ dstObjects' = IF ok THEN dstObjects \cup {calc.task.Filename} ELSE dstObjects
    /\ UNCHANGED <<OtherThanUpload, crashed, up, archiveReady, UploadedBytes,
                   uploadLog, segFiles, UploadedFiles>>

\* uploader.go:35-37: log.Fatal(err) ends the process.
UploadFatal ==
    /\ Running
    /\ up.pc = "upload"
    /\ calc.pc = "returned"
    /\ calc.err
    /\ crashed' = "fatal"
    /\ UNCHANGED <<OtherThanUpload, calc, up, archiveReady, UploadedBytes,
                   dstObjects, uploadLog, segFiles, UploadedFiles>>

\* uploader.go:39-41: one turn of the loop over task.Contents.
UploadLogLine ==
    /\ Running
    /\ up.pc = "upload"
    /\ calc.pc = "returned"
    /\ ~calc.err
    /\ calc.logged < Len(calc.task.Contents)
    /\ uploadLog' = LogLines(uploadLog, << calc.task.Contents[calc.logged + 1] >>)
    /\ calc' = [calc EXCEPT !.logged = @ + 1]
    /\ UNCHANGED <<OtherThanUpload, crashed, up, archiveReady, UploadedBytes,
                   dstObjects, segFiles, UploadedFiles>>

\* uploader.go:42-43: os.Remove(task.Filename) and the count, after the loop.
UploadRemove ==
    /\ Running
    /\ up.pc = "upload"
    /\ calc.pc = "returned"
    /\ ~calc.err
    /\ calc.logged = Len(calc.task.Contents)
    /\ segFiles' = [segFiles EXCEPT ![calc.task.Filename].state = "removed"]
    /\ UploadedFiles' = UploadedFiles + 1
    /\ up' = [up EXCEPT !.pc = "select"]
    /\ calc' = [calc EXCEPT !.pc = "done"]
    /\ UNCHANGED <<OtherThanUpload, crashed, archiveReady, UploadedBytes,
                   dstObjects, uploadLog>>

NextUpload ==
    \/ S3Init
    \/ \E variant \in UploadVariants : UploadTake(variant)
    \/ \E outcome \in {"ok", "fileError", "createError"} : UploadOpen(outcome)
    \/ UploadSpawn
    \/ \E p \in 0..7, ok \in BOOLEAN : UploadPartRun(p, ok)
    \/ UploadWait
    \/ \E ok \in BOOLEAN : UploadSerialPart(ok)
    \/ \E ok \in BOOLEAN : UploadComplete(ok)
    \/ UploadFatal
    \/ UploadLogLine
    \/ UploadRemove
    \/ UploaderReturn

SpecUpload == InitUpload /\ [][NextUpload]_vars

\* A call of uploadFileInParts is under way or over.
Called == calc # NoCall

\* C24: if any UploadPart of a segment fails, uploadFileInParts calls
\* AbortMultipartUpload for that upload, never CompleteMultipartUpload, and
\* returns a non-nil error.
C24_FailedPartAborts ==
    (Called /\ calc.errs > 0) =>
        /\ calc.completes = 0
        /\ calc.pc # "complete"
        /\ calc.pc \in {"returned", "done"} =>
              /\ calc.aborts = 1
              /\ calc.err

\* Of the eight parts sent at once some failed and some did not, and the
\* call has returned.
C24_Witness ==
    /\ Called
    /\ calc.variant = "parallel"
    /\ calc.pc = "returned"
    /\ calc.errs >= 2
    /\ \E p \in DOMAIN calc.part : calc.part[p] = "ok"

\* ---------------------------------------------------------------- upload sections

\* Largest segment file size among those split.
MaxFileSize == 20

InitSections ==
    /\ AtRest
    /\ \E size \in 1..MaxFileSize :
          calc = [pc |-> "loop", size |-> size, partCount |-> 8, i |-> 0,
                  sections |-> <<>>, read |-> <<>>]

\* s3.go:878-903: one turn of the loop computes the section of part i and
\* starts its goroutine, which hands UploadPart the reader
\* NewSectionReader(file, start, partLen); `read` is what that reader yields.
SectionLoop ==
    /\ calc.pc = "loop"
    /\ calc.i < calc.partCount
    /\ LET r == UploadRange(calc.size, calc.partCount, calc.i) IN
       calc' = [calc EXCEPT
                  !.i = @ + 1,
                  !.sections = Append(@, r),
                  !.read = Append(@, SectionRead(NewSectionReader(r.start, r.len),
                                                 calc.size))]
    /\ UNCHANGED OtherThanCalc

\* s3.go:915: wg.Wait() after the last turn.
SectionWait ==
    /\ calc.pc = "loop"
    /\ calc.i = calc.partCount
    /\ calc' = [calc EXCEPT !.pc = "waited"]
    /\ UNCHANGED OtherThanCalc

NextSections == SectionLoop \/ SectionWait

SpecSections == InitSections /\ [][NextSections]_vars

\* The sum of the lengths of the sections.
RECURSIVE SumLen(_)
SumLen(s) == IF s = <<>> THEN 0 ELSE Head(s).len + SumLen(Tail(s))

\* C25: for every segment file size >= 1 and partCount = 8 the byte ranges
\* given to the 8 UploadPart calls are contiguous and pairwise disjoint, each
\* has a length >= 0, the lengths add up to the file size, and together they
\* cover exactly the bytes 0..size-1.
C25_SectionsCoverFile ==
    calc.pc = "waited" =>
        LET s == calc.sections IN
        /\ Len(s) = 8
        /\ s[1].start = 0
        /\ \A i \in 1..8 : s[i].len >= 0
        /\ \A i \in 1..7 : s[i + 1].start = s[i].start + s[i].len
        /\ SumLen(s) = calc.size
        /\ s[8].start + s[8].len = calc.size

\* C26: if CompleteMultipartUpload fails, uploadFileInParts returns a non-nil
\* error, and the Uploader neither appends the segment's keys to upload.log
\* nor removes the local segment file.
C26_FailedCompleteKeepsFile ==
    (Called /\ calc.completeFailed) =>
        /\ calc.err
        /\ uploadLog = <<>>
        /\ segFiles[calc.task.Filename].state = "closed"
        /\ UploadedFiles = 0

\* The names of task.Contents are the lines upload.log ends with.
AllLogged(contents) ==
    /\ Len(uploadLog) >= Len(contents)
    /\ SubSeq(uploadLog, Len(uploadLog) - Len(contents) + 1, Len(uploadLog)) = contents

\* C27: the Uploader removes a local segment file only after the upload of
\* that segment succeeded and all its contents were appended to upload.log,
\* in that order (nothing is logged before the upload succeeded); a segment
\* whose upload failed is never removed.
C27_RemovedAfterLogged ==
    Called =>
        LET n == calc.task.Filename IN
        /\ calc.logged > 0 => n \in dstObjects
        /\ segFiles[n].state = "removed" =>
              /\ n \in dstObjects
              /\ AllLogged(calc.task.Contents)
        /\ (calc.errs > 0 \/ calc.completeFailed) => segFiles[n].state = "closed"

\* ---------------------------------------------------------------- the Archiver of archive.go

\* archive.go:140-142: the ArchiveFile of this Archiver carries the name only.
NamedArchive(a) == [Filename |-> a.tgzFile]

\* archive.go:154-217: the select takes a task.  OpenArchive assigns a local
\* archiveFile (archive.go:224), so the package variable stays nil and the
\* test of line 162 opens a segment for every task, the writers of the one
\* before being dropped as they are.  Nothing adds to archiveBytesWritten, so
\* the roll of lines 167-172 is not taken.  The header is written, and the
\* bytes held in memory are copied.
GoArchiverRecv ==
    /\ Running
    /\ ar.pc = "select"
    /\ scanned.q # <<>>
    /\ ~archiveOpen
    /\ archiveBytesWritten <= sizeCapLimit
    /\ LET task == Head(scanned.q) IN
       /\ scanned' = [scanned EXCEPT !.q = Tail(@)]
       /\ archiveCount' = archiveCount + 1
       /\ segFiles' = WriteHeader(OpenArchive(segFiles), archiveCount + 1, task)
       /\ ar' = [ar EXCEPT !.tgzFile = archiveCount + 1]
    /\ UNCHANGED <<OtherThanArch, envVars, mainVars, archiveOpen, archiveBytesWritten,
                   archiveReady, archiveHist, tempFiles>>

\* archive.go:155-156 and :239-249: tasksCh is closed and drained.
\* CloseArchive closes the tar and gzip writers of the segment opened last;
\* with no segment ever opened archiveTar is nil and its Close panics.
GoArchiverClosed ==
    /\ Running
    /\ ar.pc = "select"
    /\ scanned.q = <<>>
    /\ scanned.closed
    /\ IF archiveCount = 0
       THEN /\ crashed' = "panic"
            /\ UNCHANGED <<ar, segFiles>>
       ELSE /\ ar' = [ar EXCEPT !.pc = "emitFinal"]
            /\ segFiles' = CloseArchive(segFiles, ar.tgzFile)
            /\ UNCHANGED crashed
    /\ UNCHANGED <<OtherThanArch, cancelled, s3Ready, scanReady, mainVars, scanned,
                   archiveCount, archiveOpen, archiveBytesWritten, archiveReady,
                   archiveHist, tempFiles>>

\* archive.go:157-159 and :147: the last ArchiveFile is sent, the Archiver
\* returns and the deferred close(doneCh) runs.
GoArchiverEmitFinal ==
    /\ Running
    /\ ar.pc = "emitFinal"
    /\ Len(archiveReady.q) < CapArchiveReady
    /\ archiveReady' = [q |-> Append(archiveReady.q, NamedArchive(ar)), closed |-> TRUE]
    /\ archiveHist' = Append(archiveHist, NamedArchive(ar))
    /\ ar' = [ar EXCEPT !.pc = "returned"]
    /\ UNCHANGED <<OtherThanArch, envVars, mainVars, scanned, archiveCount,
                   archiveOpen, archiveBytesWritten, segFiles, tempFiles>>

\* archive.go:152-153: ctx.Done() is ready; the Archiver returns.
GoArchiverCtxDone ==
    /\ Running
    /\ ar.pc = "select"
    /\ cancelled
    /\ ar' = [ar EXCEPT !.pc = "returned"]
    /\ archiveReady' = [archiveReady EXCEPT !.closed = TRUE]
    /\ UNCHANGED <<OtherThanArch, envVars, mainVars, scanned, archiveCount,
                   archiveOpen, archiveBytesWritten, segFiles, archiveHist, tempFiles>>

NextArchiveGo ==
    \/ \E size \in 0..MaxSize : Arrive(size)
    \/ ScannerReturn
    \/ Cancel
    \/ GoArchiverRecv
    \/ GoArchiverClosed
    \/ GoArchiverEmitFinal
    \/ GoArchiverCtxDone

SpecArchiveGo == InitArchiver /\ [][NextArchiveGo]_vars

\* The segments named by the ArchiveFiles sent, and the names packed in a
\* segment.
EmittedSegments == { archiveHist[k].Filename : k \in 1..Len(archiveHist) }
PackedIn(n) == [k \in 1..Len(segFiles[n].entries) |-> segFiles[n].entries[k].Name]

\* C28: when its input is closed the Archiver closes the open segment and
\* emits one final ArchiveFile with the contents not yet emitted, before its
\* output is closed: once the output is closed in a run that was not
\* cancelled, every object packed is in a segment that was emitted, once.
\* Nothing is emitted when no object was ever packed, and no ArchiveFile with
\* empty contents is ever emitted.
C28_FinalArchiveEmitted ==
    /\ ar.pc = "emitFinal" =>
          /\ segFiles[ar.tgzFile].state = "closed"
          /\ ~archiveReady.closed
    /\ (Running /\ archiveReady.closed /\ ~cancelled) =>
          \A n \in DOMAIN segFiles :
              segFiles[n].entries # <<>> => n \in EmittedSegments
    /\ Cardinality(EmittedSegments) = Len(archiveHist)
    /\ PackedEntries = {} => archiveHist = <<>>
    /\ \A k \in 1..Len(archiveHist) :
          LET f == archiveHist[k] IN
          /\ PackedIn(f.Filename) # <<>>
          /\ "Contents" \in DOMAIN f => f.Contents = PackedIn(f.Filename)

\* C29: at most one segment is open at any time; a new segment is opened
\* only when none is open or right after the current one was closed, so
\* every segment but the newest is closed; and every segment that was emitted
\* was closed before.
C29_OneOpenSegment ==
    /\ Cardinality({ n \in DOMAIN segFiles : segFiles[n].state = "open" }) <= 1
    /\ \A n \in DOMAIN segFiles : n < Len(segFiles) => segFiles[n].state # "open"
    /\ \A n \in EmittedSegments : segFiles[n].state # "open"
    /\ ar.pc \in {"emitRoll", "emitFinal"} => segFiles[ar.tgzFile].state = "closed"

\* The temp files named by the payloads a stage holds or a channel carries:
\* their readers to come.
TempsOf(S) == { f.TempFile : f \in S } \ {NoTemp}
HeldTemps ==
    TempsOf({ w.file : w \in { x \in dworkers : x.st = "send" } })
    \cup TempsOf(Range(downloaded.q))
    \cup (IF sc.pc = "add" THEN TempsOf({sc.task}) ELSE {})
    \cup TempsOf({ w.task : w \in { x \in sworkers : x.st = "run" } })
    \cup TempsOf({ w.file : w \in { x \in sworkers : x.st = "send" } })
    \cup TempsOf(Range(scanned.q))
    \cup (IF ar.pc = "emitRoll" THEN TempsOf({ar.task}) ELSE {})

\* The run has ended in the normal way: the Uploader's done channel is
\* closed, with no cancellation, panic or log.Fatal.
NormalShutdown == Running /\ ~cancelled /\ uploaderDone

\* C30: every temp spill file is unlinked exactly once (by the Downloader on
\* a part failure, by the Scanner on a virus or scan error, by the Archiver
\* after the copy) and never before its last reader has finished: a file
\* still to be read exists, and a file that exists is still to be read.
\* After a normal shutdown no temp spill file remains.
C30_TempFilesUnlinked ==
    /\ HeldTemps = tempFiles
    /\ NormalShutdown => tempFiles = {}

\* ---------------------------------------------------------------- the listing of loadMetadata

\* Largest number of objects the listing returns.
MaxListed == 3

\* What a page of ListObjectsV2 can hold for one object: Key and Size are
\* pointers, and either may be nil.
ListedObjects ==
    { [Key |-> <<"a">>, Size |-> 2], [Key |-> <<"b">>, Size |-> 0],
      [Key |-> <<"c">>], [Size |-> 1], [none |-> TRUE] }

RECURSIVE Listings(_)
Listings(n) ==
    IF n = 0 THEN { <<>> }
    ELSE { <<>> } \cup { <<o>> \o t : o \in ListedObjects, t \in Listings(n - 1) }

\* metadata.go:166: obj.Key == nil || obj.Size == nil skips the object.
Listable(obj) == "Key" \in DOMAIN obj /\ "Size" \in DOMAIN obj

\* A total that is not moved by the object: the variant the summary's sum is
\* checked against.
AddSizeNothing(total, size) == total

\* metadata.go:172: totalSize += *obj.Size.
AddSize(total, size) == total + size

InitList ==
    \E listed \in Listings(MaxListed) :
        /\ metadataFile = <<>>
        /\ TotalFiles = 0
        /\ TotalBytes = 0
        /\ mn = [pc |-> "stat", found |-> FALSE, onDisk |-> FALSE,
                 bucket |-> <<>>, listings |-> 0]
        /\ calc = [pc |-> "create", listed |-> listed, next |-> 1, asked |-> FALSE,
                   page |-> <<>>,
                   objectCount |-> 0, totalSize |-> 0, lines |-> <<>>]
        /\ StagesIdle(<<>>, <<>>, 1)

OtherThanList == <<subSetFiles, skipFiles, rd, emitted, cancelled, s3Ready, scanReady,
                   downVars, memVars, scanVars, ar, sizeCapLimit,
                   UploadedArchivedFiles, dr, archiveCount, archiveOpen,
                   archiveBytesWritten, segFiles, archiveHist, upVars, errVars,
                   toDownload, downloaded, scanned, archiveReady>>

\* part_004:64 and metadata.go:117-144: main finds no metadata.jsonl and
\* calls loadMetadata, which waits for the S3 client and creates the file.
ListCreate ==
    /\ Running
    /\ s3Ready
    /\ mn.pc = "stat"
    /\ calc.pc = "create"
    /\ calc' = [calc EXCEPT !.pc = "pages"]
    /\ mn' = [mn EXCEPT !.onDisk = TRUE, !.listings = @ + 1]
    /\ UNCHANGED <<metadataFile, TotalFiles, TotalBytes, crashed, OtherThanList>>

\* metadata.go:157-163: while the paginator has more pages the next one is
\* fetched; an error ends the process, the deferred Flush not run.  (The
\* first page is always asked for.)
ListNextPage(fails) ==
    /\ Running
    /\ calc.pc = "pages"
    /\ calc.next <= Len(calc.listed) \/ ~calc.asked
    /\ IF fails
       THEN /\ crashed' = "fatal"
            /\ UNCHANGED calc
       ELSE /\ calc' = [calc EXCEPT
                          !.pc = "objects",
                          !.asked = TRUE,
                          !.next = IF @ + PageLen > Len(calc.listed) + 1
                                   THEN Len(calc.listed) + 1 ELSE @ + PageLen,
                          !.page = IF calc.next + PageLen > Len(calc.listed) + 1
                                   THEN SubSeq(calc.listed, calc.next, Len(calc.listed))
                                   ELSE SubSeq(calc.listed, calc.next,
                                               calc.next + PageLen - 1)]
            /\ UNCHANGED crashed
    /\ UNCHANGED <<metadataFile, TotalFiles, TotalBytes, mn, OtherThanList>>

\* metadata.go:165-179: one turn of the loop over page.Contents.  The entry
\* line goes to the bufio.Writer, which passes on what does not fit.
ListObject ==
    /\ Running
    /\ calc.pc = "objects"
    /\ calc.page # <<>>
    /\ LET obj == Head(calc.page)
           lines == IF Listable(obj)
                    THEN Append(calc.lines, MetaEntry(obj.Key, obj.Size))
                    ELSE calc.lines
       IN /\ calc' = [calc EXCEPT
                        !.page = Tail(@),
                        !.objectCount = IF Listable(obj) THEN @ + 1 ELSE @,
                        !.totalSize = IF Listable(obj) THEN AddSize(@, obj.Size) ELSE @,
                        !.lines = lines]
          /\ metadataFile' = FlushedPrefix(lines)
    /\ UNCHANGED <<TotalFiles, TotalBytes, mn, crashed, OtherThanList>>

\* metadata.go:165: the page is exhausted; back to the paginator.
ListPageDone ==
    /\ Running
    /\ calc.pc = "objects"
    /\ calc.page = <<>>
    /\ calc' = [calc EXCEPT !.pc = "pages"]
    /\ UNCHANGED <<metadataFile, TotalFiles, TotalBytes, mn, crashed, OtherThanList>>

\* metadata.go:182-196 and :146-154, part_004:64-70: no page is left; the
\* summary line is written from the two counters, the deferred function
\* flushes and closes the file, and main takes the totals returned.
ListSummary ==
    /\ Running
    /\ calc.pc = "pages"
    /\ calc.next > Len(calc.listed)
    /\ calc.asked
    /\ LET summary == [Key |-> <<>>, Size |-> 0,
                       total_objects |-> calc.objectCount,
                       total_size |-> calc.totalSize]
       IN /\ metadataFile' = Append(calc.lines, summary)
          /\ calc' = [calc EXCEPT !.pc = "returned"]
    /\ TotalFiles' = calc.objectCount
    /\ TotalBytes' = calc.totalSize
    /\ mn' = [mn EXCEPT !.pc = "run"]
    /\ UNCHANGED <<crashed, OtherThanList>>

NextList ==
    \/ S3Init
    \/ ListCreate
    \/ \E fails \in BOOLEAN : ListNextPage(fails)
    \/ ListObject
    \/ ListPageDone
    \/ ListSummary

SpecList == InitList /\ [][NextList]_vars

\* The objects of a listing that carry both a key and a size, as entries.
RECURSIVE EntriesOf(_)
EntriesOf(listed) ==
    IF listed = <<>> THEN <<>>
    ELSE (IF Listable(Head(listed))
          THEN << MetaEntry(Head(listed).Key, Head(listed).Size) >> ELSE <<>>)
         \o EntriesOf(Tail(listed))

\* C31: the summary line the indexer writes has total_objects equal to the
\* number of entry lines written before it and total_size equal to the sum
\* of their sizes; a listed object with a missing key or size produces no
\* entry line and is counted in neither total.
C31_SummaryCountsTheEntries ==
    Complete(metadataFile) =>
        LET n == Len(metadataFile)
            entries == SubSeq(metadataFile, 1, n - 1)
        IN /\ metadataFile[n].total_objects = n - 1
           /\ metadataFile[n].total_size = SumSizes(entries)
           /\ entries = EntriesOf(calc.listed)
           /\ TotalFiles = n - 1
           /\ TotalBytes = SumSizes(entries)

\* A listing with an object that lacks its size and one that lacks its key,
\* among objects that were written, has been indexed to the end.
C31_Witness ==
    /\ Complete(metadataFile)
    /\ calc.pc = "returned"
    /\ \E i \in 1..Len(calc.listed) : DOMAIN calc.listed[i] = {"Key"}
    /\ \E i \in 1..Len(calc.listed) : DOMAIN calc.listed[i] = {"Size"}
    /\ Len(metadataFile) >= 2

\* ---------------------------------------------------------------- the scan pool

\* C32: at any time at most concurrentScans scan workers are running in the
\* Scanner, whatever the number of WorkFiles waiting on its input queue.
C32_ScanPoolBounded == Cardinality(sworkers) <= concurrentScans

\* The pool is full and the Scanner holds a further task at swg.Add().
C32_Witness ==
    /\ Cardinality(sworkers) = concurrentScans
    /\ sc.pc = "add"

\* ---------------------------------------------------------------- the readiness gates

C34_ClosedAfterWorkers ==
    /\ downloaded.closed => dworkers = {}
    /\ crashed # "panic"

\* ---------------------------------------------------------------- a first run and a resumed run

\* The first run: two objects of one byte each and SIZECAP 1, so that each
\* object gets a segment of its own; upload.log does not exist yet; SUBSET
\* unset or 0:1.
InitResume ==
    \E entries \in { << MetaEntry(KeyA, 1), MetaEntry(KeyB, 1) >>,
                     << MetaEntry(KeyA, 1), MetaEntry(KeyB, 0) >> },
       subset \in PipeSubsets :
        InitWith(entries, <<>>, subset, 1)

\* The segment objects a run has put into the destination bucket, each with
\* the keys it holds.
PutObjects ==
    { archiveHist[j] : j \in { i \in 1..Len(archiveHist) :
                                  archiveHist[i].Filename \in dstObjects } }

\* part_004:27-110, part_003:14-22: the process has ended (the Uploader's
\* done channel was closed, or a panic or log.Fatal ended it) and is started
\* again with the same metadata.jsonl and the upload.log the first run left.
\* Every package variable has its initial value again: archiveCount is 0.
\* The destination bucket keeps the objects of the first run.
Restart ==
    /\ calc = NoCall
    /\ uploaderDone \/ crashed # ""
    /\ calc' = [pc |-> "resumed", dst |-> PutObjects, log |-> uploadLog]
    /\ UNCHANGED <<metadataFile, TotalFiles, TotalBytes, mn>>
    /\ uploadLog' = uploadLog
    /\ logBase' = Len(uploadLog)
    /\ subSetFiles' = subSetFiles
    /\ skipFiles' = {}
    /\ rd' = ReaderInit
    /\ toDownload' = NewChan
    /\ emitted' = <<>>
    /\ cancelled' = FALSE
    /\ crashed' = ""
    /\ s3Ready' = FALSE
    /\ scanReady' = FALSE
    /\ errCh' = EmptyBag
    /\ errPending' = 0
    /\ DownloadedBytes' = 0
    /\ UploadedBytes' = 0
    /\ UploadedArchivedFiles' = 0
    /\ dr' = {}
    /\ dl' = [pc |-> "select", task |-> <<>>, added |-> 0]
    /\ dworkers' = {}
    /\ downloaded' = NewChan
    /\ downloadedHist' = EmptyBag
    /\ bufsOut' = {}
    /\ tempFiles' = {}
    /\ DownloadedFiles' = 0
    /\ sc' = [pc |-> "wait", task |-> <<>>]
    /\ sworkers' = {}
    /\ scanLog' = {}
    /\ scanned' = NewChan
    /\ scannedHist' = EmptyBag
    /\ ScannedFiles' = 0
    /\ ar' = [pc |-> "select", task |-> <<>>, tgzFile |-> 0, contents |-> <<>>]
    /\ sizeCapLimit' = sizeCapLimit
    /\ archiveCount' = 0
    /\ archiveOpen' = FALSE
    /\ archiveBytesWritten' = 0
    /\ segFiles' = <<>>
    /\ archiveReady' = NewChan
    /\ archiveHist' = <<>>
    /\ up' = [pc |-> "select"]
    /\ uploaderDone' = FALSE
    /\ dstObjects' = {}
    /\ UploadedFiles' = 0

NextResume == Next \/ Restart

SpecResume == InitResume /\ [][NextResume]_vars

\* The destination bucket after the resumed run: an object the resumed run
\* has put replaces the object of the same key the first run had put.
Destination ==
    PutObjects \cup { o \in calc.dst : o.Filename \notin dstObjects }

\* C35: across a first run and a resumed run against the same destination
\* bucket, the resumed run never uploads a segment under a destination key
\* that the first run already uploaded, and every key recorded in upload.log
\* is contained in a segment object present at the destination.
C35_ResumeKeepsSegments ==
    calc # NoCall =>
        /\ dstObjects \cap { o.Filename : o \in calc.dst } = {}
        /\ uploaderDone =>
              \A i \in 1..Len(uploadLog) :
                  \E o \in Destination : uploadLog[i] \in Range(o.Contents)

\* ---------------------------------------------------------------- the contents of an ArchiveFile

\* C36: for every ArchiveFile the Archiver emits, its contents list holds
\* exactly the filenames for which a tar header was written into that
\* segment, zero-byte objects included, in the order the headers were
\* written; and neither the list of an emitted ArchiveFile nor the headers
\* of its segment are changed by later steps.
C36_ContentsAreTheHeaders ==
    [][ /\ \A k \in 1..Len(archiveHist') :
              archiveHist'[k].Contents =
                  [i \in 1..Len(segFiles'[archiveHist'[k].Filename].entries) |->
                      segFiles'[archiveHist'[k].Filename].entries[i].Name]
        /\ Len(archiveHist') >= Len(archiveHist)
        /\ \A k \in 1..Len(archiveHist) :
              /\ archiveHist'[k] = archiveHist[k]
              /\ segFiles'[archiveHist[k].Filename].entries =
                     segFiles[archiveHist[k].Filename].entries ]_vars

\* An ArchiveFile was emitted for a segment that holds a zero-byte object
\* next to another object, and the Archiver has gone on to a later segment.
C36_Witness ==
    \E k \in 1..Len(archiveHist) :
        LET n == archiveHist[k].Filename IN
        /\ Len(archiveHist[k].Contents) >= 2
        /\ \E i \in 1..Len(segFiles[n].entries) : segFiles[n].entries[i].Size = 0
        /\ Len(segFiles) > n
        /\ segFiles[Len(segFiles)].entries # <<>>

\* ---------------------------------------------------------------- the WorkFiles in flight

\* The stages of a long run, by the number of WorkFiles each holds: the
\* metadata file is long enough for the Reader to have a task ready whenever
\* the Downloader asks, and every object is small (one slot of the download
\* pool each).  hold: the loop has taken a task and not yet started its
\* worker; run, send: workers at work and workers about to send; q: the
\* length of the output queue.
InitFlow ==
    /\ AtRest
    /\ calc = [pc |-> "flow", dlHold |-> 0, dRun |-> 0, dSend |-> 0, dq |-> 0,
               scHold |-> 0, sRun |-> 0, sSend |-> 0, sq |-> 0,
               arHold |-> 0, aq |-> 0]

\* A wait group that never makes Add wait: the variant the bound on the
\* WorkFiles in flight is checked against.
SwgFreeAlways(running, pool) == TRUE

\* sizedwaitgroup: Add returns when fewer than pool goroutines are counted.
SwgFree(running, pool) == running < pool

\* download.go:45: the Downloader's select takes a task.
FlowDownloaderRecv ==
    /\ Running
    /\ calc.dlHold = 0
    /\ calc' = [calc EXCEPT !.dlHold = 1]
    /\ UNCHANGED OtherThanCalc

\* download.go:49-58: swg.Add() for the one part, then the worker starts.
FlowDownloaderAdd ==
    /\ Running
    /\ calc.dlHold = 1
    /\ SwgFree(calc.dRun + calc.dSend, DownloadSlots)
    /\ calc' = [calc EXCEPT !.dlHold = 0, !.dRun = @ + 1]
    /\ UNCHANGED OtherThanCalc

\* download.go:65-93: the worker has the object, or has posted an
\* ErrorEvent and returned (its slot is free again).
FlowDownloadRun(ok) ==
    /\ Running
    /\ s3Ready
    /\ calc.dRun > 0
    /\ calc' = [calc EXCEPT !.dRun = @ - 1, !.dSend = IF ok THEN @ + 1 ELSE @]
    /\ UNCHANGED OtherThanCalc

\* download.go:94: the send on doneCh blocks while the queue is full; the
\* worker returns and its slot is free again.
FlowDownloadSend ==
    /\ Running
    /\ calc.dSend > 0
    /\ calc.dq < CapDownloaded
    /\ calc' = [calc EXCEPT !.dSend = @ - 1, !.dq = @ + 1]
    /\ UNCHANGED OtherThanCalc

\* part_000:163-169: the Scanner, the engine ready, takes a WorkFile.
FlowScannerRecv ==
    /\ Running
    /\ scanReady
    /\ calc.scHold = 0
    /\ calc.dq > 0
    /\ calc' = [calc EXCEPT !.scHold = 1, !.dq = @ - 1]
    /\ UNCHANGED OtherThanCalc

\* part_000:176-177: swg.Add(), then the scan worker starts.
FlowScannerAdd ==
    /\ Running
    /\ calc.scHold = 1
    /\ SwgFree(calc.sRun + calc.sSend, concurrentScans)
    /\ calc' = [calc EXCEPT !.scHold = 0, !.sRun = @ + 1]
    /\ UNCHANGED OtherThanCalc

\* part_000:181-225: the scan is done: the WorkFile is clean, or an
\* ErrorEvent was posted and the worker has returned.
FlowScanRun(clean) ==
    /\ Running
    /\ calc.sRun > 0
    /\ calc' = [calc EXCEPT !.sRun = @ - 1, !.sSend = IF clean THEN @ + 1 ELSE @]
    /\ UNCHANGED OtherThanCalc

\* part_000:226-231: the send on doneCh blocks while the queue is full.
FlowScanSend ==
    /\ Running
    /\ calc.sSend > 0
    /\ calc.sq < CapScanned
    /\ calc' = [calc EXCEPT !.sSend = @ - 1, !.sq = @ + 1]
    /\ UNCHANGED OtherThanCalc

\* part_003:41-103: the Archiver takes a WorkFile; it packs it at once, or
\* (rolls) it has first to send the ArchiveFile of the segment it closed.
FlowArchiverRecv(rolls) ==
    /\ Running
    /\ calc.arHold = 0
    /\ calc.sq > 0
    /\ calc' = [calc EXCEPT !.sq = @ - 1, !.arHold = IF rolls THEN 1 ELSE 0]
    /\ UNCHANGED OtherThanCalc

\* part_003:76-103: the send on doneCh blocks while archiveReady is full;
\* then the WorkFile in hand is packed into the next segment.
FlowArchiverEmitRoll ==
    /\ Running
    /\ calc.arHold = 1
    /\ calc.aq < CapArchiveReady
    /\ calc' = [calc EXCEPT !.arHold = 0, !.aq = @ + 1]
    /\ UNCHANGED OtherThanCalc

\* uploader.go:26-42: the Uploader takes an ArchiveFile and uploads it.
FlowUploaderRecv ==
    /\ Running
    /\ s3Ready
    /\ calc.aq > 0
    /\ calc' = [calc EXCEPT !.aq = @ - 1]
    /\ UNCHANGED OtherThanCalc

NextFlow ==
    \/ S3Init
    \/ ClamInit
    \/ FlowDownloaderRecv
    \/ FlowDownloaderAdd
    \/ \E ok \in BOOLEAN : FlowDownloadRun(ok)
    \/ FlowDownloadSend
    \/ FlowScannerRecv
    \/ FlowScannerAdd
    \/ \E clean \in BOOLEAN : FlowScanRun(clean)
    \/ FlowScanSend
    \/ \E rolls \in BOOLEAN : FlowArchiverRecv(rolls)
    \/ FlowArchiverEmitRoll
    \/ FlowUploaderRecv

SpecFlow == InitFlow /\ [][NextFlow]_vars

\* The WorkFiles that have been downloaded and are not yet packed.
InFlight ==
    calc.dSend + calc.dq + calc.scHold + calc.sRun + calc.sSend + calc.sq + calc.arHold

\* C37 as stated: the WorkFiles downloaded and not yet packed are at most
\* the download pool, the downloaded queue, the scan pool and the scanned
\* queue together, plus one.
C37_InFlightBound ==
    InFlight <= DownloadSlots + CapDownloaded + concurrentScans + CapScanned + 1

\* C37: the WorkFiles downloaded and not yet packed are at most the download
\* pool, the downloaded queue, the scan pool and the scanned queue together,
\* plus two: the one the Scanner's loop holds while it waits for a free scan
\* slot and the one the Archiver holds while it sends an ArchiveFile.
C37_InFlightBoundPlusTwo ==
    InFlight <= DownloadSlots + CapDownloaded + concurrentScans + CapScanned + 2

\* Every pool and queue is full, the Scanner's loop and the Archiver each
\* hold a WorkFile, and the Downloader waits for a slot with a further task.
C37_Witness ==
    /\ InFlight = DownloadSlots + CapDownloaded + concurrentScans + CapScanned + 2
    /\ calc.dlHold = 1
    /\ calc.aq = CapArchiveReady

\* ---------------------------------------------------------------- shutdown on cancellation

\* The pipeline under the scheduler, with nothing asked of the Reader: a
\* step of a stage that can be taken is taken in the end, while the Reader
\* may stay at its file for ever and never close toDownload.
SpecCancel == InitLive /\ [][Next]_vars /\ WF_vars(Next /\ rd' = rd)

\* The four stages have returned and closed their outputs.
StagesReturned ==
    /\ dl.pc = "returned" /\ downloaded.closed
    /\ sc.pc = "returned" /\ scanned.closed
    /\ ar.pc = "returned" /\ archiveReady.closed
    /\ up.pc = "returned" /\ uploaderDone

\* C38: after the cancellation context is cancelled, each of the Downloader,
\* Scanner, Archiver and Uploader goroutines eventually returns and closes
\* its output (the Uploader its done signal), even when its input queue is
\* never closed, unless a panic or log.Fatal ends the process before.
C38_CancelShutsDown ==
    (cancelled /\ Running) ~> (~Running \/ StagesReturned)

\* ---------------------------------------------------------------- the frame of the download reader

\* C39: a read through the download reader changes only the download
\* counter: it leaves UploadedBytes unchanged, and UploadedBytes grows only
\* by the bytes read from segment files for upload, so that the upload of a
\* segment adds exactly the size of its file.
C39_ReadLeavesUploadedBytes ==
    [][ LET uploads == Len(archiveReady'.q) < Len(archiveReady.q) IN
        /\ (\E r \in dr : r \notin dr') => UploadedBytes' = UploadedBytes
        /\ ~uploads => UploadedBytes' = UploadedBytes
        /\ (uploads /\ crashed' = "") =>
              UploadedBytes' = UploadedBytes +
                  ArchiveBytes(segFiles[Head(archiveReady.q).Filename].entries) ]_vars

\* ---------------------------------------------------------------- the range of parseByteSize

\* C40: parseByteSize either returns an error or returns the exact product
\* of the parsed integer and its unit as a non-negative 64-bit value: never
\* a value that wrapped around, never a negative size.
C40_ExactOrError ==
    (calc.pc = "done" /\ calc.kind = "suffixed") =>
        \/ calc.out.err
        \/ /\ ~calc.out.val.neg
           /\ calc.out.val.mag = calc.x
           /\ BigLeq(calc.x, MaxInt64)

====
